---- MODULE Spec2Model ----
(***************************************************************************)
(* Model of the matching/loss engine of BC._calculate_loss                 *)
(* (src/src/imitation/algorithms/bc.py) and of the TrajectoryAccumulator,  *)
(* the rollout drivers and flatten_trajectories                            *)
(* (src/src/imitation/data/rollout.py).                                    *)
(*                                                                         *)
(* Numbers.  Tensor entries are modelled as exact integers in a fixed unit *)
(* (no rounding).  A mean squared error over n components is kept as       *)
(* DistScale * (sum of squares) / n, and an assignment weight w is kept as *)
(* the integer WScale * w, so every quantity below is a whole number.  A   *)
(* loss, which the code obtains by a division, is kept as a pair           *)
(* <<numerator, denominator>>.                                             *)
(***************************************************************************)
EXTENDS Integers, Sequences, FiniteSets, TLC

VARIABLES
    acts,                  \* expert tensor: [0..B-1 -> [0..K-1 -> hypothesis vector]]
    pred_acts,             \* self.policy.forward(obs): same layout, its own K
    cfg,                   \* the BC object's configuration fields
    pc,                    \* "start" before _calculate_loss, "done" after it
    out,                   \* what _calculate_loss left: status, locals, returned values
    partial_trajectories,  \* TrajectoryAccumulator.partial_trajectories
    ret,                   \* outcome of the last accumulator call
    args,                  \* arguments of the running rollout driver
    venv,                  \* the vectorized environment, as the driver has used it
    trajectories,          \* driver local: the trajectories collected so far
    active,                \* driver local: the active flag of every slot
    num_demos,             \* driver local: the demo counter
    tick,                  \* driver locals of the last completed loop iteration
    stats,                 \* benchmark driver locals: failure counters, times, costs
    result,                \* what the driver returned
    iterator               \* the batch iterator: its fields, its generator's locals

drvVars == <<args, venv, trajectories, active, num_demos, tick, stats, result>>
vars == <<acts, pred_acts, cfg, pc, out, partial_trajectories, ret, args, venv,
          trajectories, active, num_demos, tick, stats, result, iterator>>

\* no EpochOrBatchIteratorWithProgress was built
NoIterator == [fn |-> "none"]

-----------------------------------------------------------------------------
(* Bounds of the model *)

MaxK == 3
MaxPos == 2
MaxFinePos == 3
\* accumulator: keys 0..MaxKey, at most MaxBuf records held at a time
MaxKey == 1
MaxBuf == 3
\* rollout drivers: at most MaxTicks loop iterations, demo targets up to MaxTarget
MaxTicks == 3
MaxTarget == 3
\* flatten_trajectories: lists of at most MaxTrajs trajectories of at most MaxLen steps
MaxTrajs == 2
MaxLen == 2
\* batch iterator: loaders of at most MaxBatches batches of at most MaxBatchSize
\* samples, n_epochs and n_batches up to MaxRuns
MaxBatches == 2
MaxBatchSize == 2
MaxRuns == 3

(* Program constants *)

\* epsilon_RWTA = 0.05 = EpsNum / EpsDen
EpsNum == 1
EpsDen == 20
\* self.yaw_scaling
YawScaling == 2
\* the 1e-7 of th.lt(..., 1e-7), in the model's unit of squared distance
Threshold == 4

\* means over 1, 2 or 3 components are whole numbers when scaled by DistScale
DistScale == 2 * 3
Infinity == 1000000 * 1000

Range(n) == 0 .. (n - 1)
\* an optional value: None, or a value that was given
None == [is_none |-> TRUE]
Some(n) == [is_none |-> FALSE, value |-> n]
\* the function f with its values computed once (the same function, tabulated);
\* Matrix and Tensor do so for two and three levels of indices
Tabulated(f) == f @@ <<>>
Matrix(f) == Tabulated([i \in DOMAIN f |-> Tabulated(f[i])])
Tensor(f) == Tabulated([b \in DOMAIN f |-> Matrix(f[b])])
Min2(a, b) == IF a < b THEN a ELSE b

RECURSIVE Fact(_)
Fact(n) == IF n <= 1 THEN 1 ELSE n * Fact(n - 1)

\* weights are kept multiplied by WScale: (1 - eps) and eps / (n - 1) are whole
WScale == EpsDen * Fact(MaxK)

-----------------------------------------------------------------------------
(* Distance Matrix Builder: bc.py 377-416 *)

\* Python h[a:b] on a vector h (the slice is clamped to the vector's length)
Slice(h, a, b) == SubSeq(h, a + 1, Min2(b, Len(h)))
\* Python h[-1:]
LastSlice(h) == SubSeq(h, Len(h), Len(h))
Scaled(h, c) == [k \in 1 .. Len(h) |-> h[k] * c]

RECURSIVE SumSq(_, _, _)
SumSq(x, y, k) == IF k > Len(x) THEN 0
                  ELSE (x[k] - y[k]) * (x[k] - y[k]) + SumSq(x, y, k + 1)

\* th.mean(th.nn.MSELoss(reduction='none')(x, y), dim=1), times DistScale
MSEMean(x, y) == (SumSq(x, y, 1) * DistScale) \div Len(x)

num_of_traj_per_action(a) == Cardinality(DOMAIN a[0])
batch_size(a) == Cardinality(DOMAIN a)

\* the slices of lines 399-404, for slice sizes that were given
expert_pos(a, c, b, i) == Slice(a[b][i], 0, c.traj_size_pos_ctrl_pts.value)
student_pos(p, c, b, j) == Slice(p[b][j], 0, c.traj_size_pos_ctrl_pts.value)
expert_yaw(a, c, b, i) ==
    Scaled(Slice(a[b][i], c.traj_size_pos_ctrl_pts.value,
                 c.traj_size_pos_ctrl_pts.value + c.traj_size_yaw_ctrl_pts.value),
           YawScaling)
student_yaw(p, c, b, j) ==
    Slice(p[b][j], c.traj_size_pos_ctrl_pts.value,
          c.traj_size_pos_ctrl_pts.value + c.traj_size_yaw_ctrl_pts.value)

distance_pos_matrix(a, p, c) ==
    [b \in DOMAIN a |-> [i \in DOMAIN a[b] |-> [j \in DOMAIN a[b] |->
        MSEMean(expert_pos(a, c, b, i), student_pos(p, c, b, j))]]]
distance_yaw_matrix(a, p, c) ==
    [b \in DOMAIN a |-> [i \in DOMAIN a[b] |-> [j \in DOMAIN a[b] |->
        MSEMean(expert_yaw(a, c, b, i), student_yaw(p, c, b, j))]]]
distance_time_matrix(a, p, c) ==
    [b \in DOMAIN a |-> [i \in DOMAIN a[b] |-> [j \in DOMAIN a[b] |->
        MSEMean(LastSlice(a[b][i]), LastSlice(p[b][j]))]]]
\* as distance_pos_matrix_within_expert, but comparing whole hypothesis vectors
distance_matrix_within_expert(a, c) ==
    [b \in DOMAIN a |-> [i \in DOMAIN a[b] |-> [j \in DOMAIN a[b] |->
        MSEMean(a[b][i], a[b][j])]]]

distance_pos_matrix_within_expert(a, c) ==
    [b \in DOMAIN a |-> [i \in DOMAIN a[b] |-> [j \in DOMAIN a[b] |->
        MSEMean(expert_pos(a, c, b, i), expert_pos(a, c, b, j))]]]

-----------------------------------------------------------------------------
(* Duplicate Detector: bc.py 418-424 *)

\* th.lt(d, 1e-7)
LtThreshold(d) == d < Threshold * DistScale

\* the two nested loops over i and j > i of one sample; rep is is_repeated[b,:]
RECURSIVE RepeatedLoop(_, _, _, _, _)
RepeatedLoop(rep, within, K, i, j) ==
    IF i >= K THEN rep
    ELSE IF j >= K THEN RepeatedLoop(rep, within, K, i + 1, i + 2)
    ELSE RepeatedLoop([rep EXCEPT ![j] = rep[j] \/ LtThreshold(within[i][j])],
                      within, K, i, j + 1)

\* as is_repeated, but flagging an expert for any other expert close to it
is_repeated_Symmetric(a, c) ==
    [b \in DOMAIN a |-> [j \in DOMAIN a[b] |->
        \E i \in DOMAIN a[b] \ {j} :
            LtThreshold(distance_pos_matrix_within_expert(a, c)[b][i][j])]]

\* as is_repeated, but comparing an expert with the one before it only
is_repeated_Adjacent(a, c) ==
    [b \in DOMAIN a |-> [j \in DOMAIN a[b] |->
        /\ j > 0
        /\ LtThreshold(distance_pos_matrix_within_expert(a, c)[b][j - 1][j])]]

is_repeated(a, c) ==
    [b \in DOMAIN a |->
        RepeatedLoop([j \in DOMAIN a[b] |-> FALSE],
                     distance_pos_matrix_within_expert(a, c)[b],
                     num_of_traj_per_action(a), 0, 1)]

-----------------------------------------------------------------------------
(* Assignment Solver, per sample: bc.py 450-538 *)

\* th.min(m, dim): the index of the first minimal entry of f over 0..n-1
ArgMin(f, n) ==
    CHOOSE i \in Range(n) :
        /\ \A k \in Range(n) : f[i] <= f[k]
        /\ \A k \in Range(i) : f[k] > f[i]

\* map2RealRows after np.delete(map2RealRows, rows_to_delete): the rows that are
\* not repeated, in increasing order (a sequence, position r+1 holds reduced row r)
RECURSIVE KeptRows(_, _, _)
KeptRows(rep, K, i) ==
    IF i >= K THEN <<>>
    ELSE IF rep[i] THEN KeptRows(rep, K, i + 1)
    ELSE <<i>> \o KeptRows(rep, K, i + 1)
map2RealRows(rep, K) == KeptRows(rep, K, 0)

\* cost_matrix[is_repeated[index_batch,:]==False]: reduced row r, column j
cost_matrix(cost, rep, K) ==
    [r \in Range(Len(map2RealRows(rep, K))) |-> cost[map2RealRows(rep, K)[r + 1]]]

\* distance_pos_matrix_batch_tmp: repeated rows set to float('inf')
distance_pos_matrix_batch_tmp(cost, rep, K) ==
    [i \in Range(K) |-> [j \in Range(K) |-> IF rep[i] THEN Infinity ELSE cost[i][j]]]

eps_over(n) == (EpsNum * Fact(MaxK)) \div (n - 1)
one_minus_eps == WScale - EpsNum * Fact(MaxK)

\* as A_RWTAc_sample, but spreading epsilon over K - 1 rows, repeated or not
A_RWTAc_sample_AllRows(cost, rep, K) ==
    LET tmp == distance_pos_matrix_batch_tmp(cost, rep, K)
        row_indexes == [j \in Range(K) |-> ArgMin([i \in Range(K) |-> tmp[i][j]], K)]
    IN  [i \in Range(K) |-> [j \in Range(K) |->
            IF rep[i] THEN 0
            ELSE IF row_indexes[j] = i THEN one_minus_eps
            ELSE eps_over(K)]]

\* lines 481-497
A_RWTAc_sample(cost, rep, K) ==
    LET tmp == distance_pos_matrix_batch_tmp(cost, rep, K)
        num_diff_traj_expert == Len(map2RealRows(rep, K))
        row_indexes == [j \in Range(K) |-> ArgMin([i \in Range(K) |-> tmp[i][j]], K)]
        fill == IF num_diff_traj_expert > 1 THEN eps_over(num_diff_traj_expert) ELSE 0
        value == IF num_diff_traj_expert > 1 THEN one_minus_eps ELSE WScale
    IN  [i \in Range(K) |-> [j \in Range(K) |->
            IF rep[i] THEN 0
            ELSE IF row_indexes[j] = i THEN value
            ELSE fill]]

\* as A_RWTAr_sample, without line 521 (repeated rows are not zeroed)
A_RWTAr_sample_KeepRepeated(cost, rep, K) ==
    LET tmp == distance_pos_matrix_batch_tmp(cost, rep, K)
        col_indexes == [i \in Range(K) |-> ArgMin(tmp[i], K)]
    IN  [i \in Range(K) |-> [j \in Range(K) |->
            IF col_indexes[i] = j THEN one_minus_eps ELSE eps_over(K)]]

\* lines 505-521
A_RWTAr_sample(cost, rep, K) ==
    LET tmp == distance_pos_matrix_batch_tmp(cost, rep, K)
        num_traj_student == K
        col_indexes == [i \in Range(K) |-> ArgMin(tmp[i], K)]
        fill == IF num_traj_student > 1 THEN eps_over(num_traj_student) ELSE 0
        value == IF num_traj_student > 1 THEN one_minus_eps ELSE WScale
    IN  [i \in Range(K) |-> [j \in Range(K) |->
            IF rep[i] THEN 0
            ELSE IF col_indexes[i] = j THEN value
            ELSE fill]]

RECURSIVE SumOver(_, _)
SumOver(f, S) == IF S = {} THEN 0
                 ELSE LET x == CHOOSE y \in S : TRUE IN f[x] + SumOver(f, S \ {x})

\* lines 500-502: th.all(th.isclose(th.sum(A, dim=0), 1))
ColumnSumsAreOne(A, K) ==
    \A j \in Range(K) : SumOver([i \in Range(K) |-> A[i][j]], Range(K)) = WScale
\* lines 524-526: th.all(th.isclose(th.sum(A[~is_repeated], dim=1), 1))
RowSumsAreOne(A, rep, K) ==
    \A i \in Range(K) : rep[i] \/ SumOver(A[i], Range(K)) = WScale

-----------------------------------------------------------------------------
(* scipy.optimize.linear_sum_assignment (bc.py 536) on an nr x nc cost       *)
(* matrix with nr <= nc: the shortest-augmenting-path solver of the library *)
(* (rectangular_lsap), with its order of scanning and its rule for ties.    *)

\* if (r < shortestPathCosts[j]) { path[j] = i; shortestPathCosts[j] = r; }
LsaRelax(s, j, r) ==
    IF r < s.shortestPathCosts[j]
    THEN [s EXCEPT !.path[j] = s.i, !.shortestPathCosts[j] = r]
    ELSE s

\* if (shortestPathCosts[j] < lowest || (== lowest && row4col[j] == -1)) {...}
LsaLowest(s, it, j, row4col) ==
    IF \/ s.shortestPathCosts[j] < s.lowest
       \/ (s.shortestPathCosts[j] = s.lowest /\ row4col[j] = -1)
    THEN [s EXCEPT !.lowest = s.shortestPathCosts[j], !.index = it]
    ELSE s

LsaVisit(s, it, j, cost, u, v, row4col) ==
    LsaLowest(LsaRelax(s, j, s.minVal + cost[s.i][j] - u[s.i] - v[j]), it, j, row4col)

\* the for loop over the remaining columns: s is the search state
RECURSIVE LsaScan(_, _, _, _, _, _)
LsaScan(s, it, cost, u, v, row4col) ==
    IF it >= s.num_remaining THEN s
    ELSE LsaScan(LsaVisit(s, it, s.remaining[it], cost, u, v, row4col),
                 it + 1, cost, u, v, row4col)

\* after the scan: minVal = lowest; column j = remaining[index] is a sink if it is
\* free, else the search moves to its row; SC[j] = true; j leaves remaining
LsaPick(s, j, row4col) ==
    [s EXCEPT
       !.minVal = s.lowest,
       !.sink = IF row4col[j] = -1 THEN j ELSE -1,
       !.i = IF row4col[j] = -1 THEN s.i ELSE row4col[j],
       !.SC[j] = TRUE,
       !.num_remaining = s.num_remaining - 1,
       !.remaining[s.index] = s.remaining[s.num_remaining - 1]]
LsaStep(s, row4col) == LsaPick(s, s.remaining[s.index], row4col)

\* while (sink == -1)
RECURSIVE LsaSearch(_, _, _, _, _)
LsaSearch(s, cost, u, v, row4col) ==
    IF s.sink # -1 THEN s
    ELSE LsaSearch(
            LsaStep(LsaScan([s EXCEPT !.index = -1, !.lowest = Infinity,
                                      !.SR[s.i] = TRUE],
                            0, cost, u, v, row4col),
                    row4col),
            cost, u, v, row4col)

augmenting_path(nr, nc, cost, u, v, path, row4col, curRow) ==
    LsaSearch([i |-> curRow, minVal |-> 0, sink |-> -1, index |-> -1,
               lowest |-> Infinity, num_remaining |-> nc,
               remaining |-> [it \in Range(nc) |-> nc - it - 1],
               SR |-> [i \in Range(nr) |-> FALSE],
               SC |-> [j \in Range(nc) |-> FALSE],
               shortestPathCosts |-> [j \in Range(nc) |-> Infinity],
               path |-> path],
              cost, u, v, row4col)

\* augment previous solution: row4col[j] = i; swap(col4row[i], j); until i == curRow
RECURSIVE LsaAugment(_, _, _, _)
LsaAugment(d, path, j, curRow) ==
    IF path[j] = curRow
    THEN [d EXCEPT !.col4row[path[j]] = j, !.row4col[j] = path[j]]
    ELSE LsaAugment([d EXCEPT !.col4row[path[j]] = j, !.row4col[j] = path[j]],
                    path, d.col4row[path[j]], curRow)

\* update dual variables after the search s from curRow
LsaDuals(d, s, nr, nc, curRow) ==
    [d EXCEPT
       !.u = [i \in Range(nr) |->
                IF i = curRow THEN d.u[i] + s.minVal
                ELSE IF s.SR[i]
                     THEN d.u[i] + s.minVal - s.shortestPathCosts[d.col4row[i]]
                     ELSE d.u[i]],
       !.v = [j \in Range(nc) |->
                IF s.SC[j] THEN d.v[j] - (s.minVal - s.shortestPathCosts[j])
                ELSE d.v[j]],
       !.path = s.path]
LsaRow(d, s, nr, nc, curRow) ==
    LsaAugment(LsaDuals(d, s, nr, nc, curRow), s.path, s.sink, curRow)

\* for (curRow = 0; curRow < nr; curRow++); d holds u, v, path, col4row, row4col
RECURSIVE LsaRows(_, _, _, _, _)
LsaRows(d, nr, nc, cost, curRow) ==
    IF curRow >= nr THEN d
    ELSE LsaRows(LsaRow(d, augmenting_path(nr, nc, cost, d.u, d.v, d.path,
                                           d.row4col, curRow),
                        nr, nc, curRow),
                 nr, nc, cost, curRow + 1)

\* a greedy stand-in: each row in turn takes its cheapest column still free
RECURSIVE GreedyRows(_, _, _, _, _)
GreedyRows(col4row, cost, nr, nc, r) ==
    IF r >= nr THEN col4row
    ELSE LET free == {j \in Range(nc) : \A q \in Range(r) : col4row[q] # j}
             best == CHOOSE j \in free :
                        /\ \A k \in free : cost[r][j] <= cost[r][k]
                        /\ \A k \in free : k < j => cost[r][k] > cost[r][j]
         IN  GreedyRows([col4row EXCEPT ![r] = best], cost, nr, nc, r + 1)
linear_sum_assignment_Greedy(cost, nr, nc) ==
    GreedyRows([i \in Range(nr) |-> -1], cost, nr, nc, 0)

\* the column assigned to each reduced row 0..nr-1 (col_indexes; row_indexes is 0..nr-1)
linear_sum_assignment(cost, nr, nc) ==
    LsaRows([u |-> [i \in Range(nr) |-> 0], v |-> [j \in Range(nc) |-> 0],
             path |-> [j \in Range(nc) |-> -1],
             col4row |-> [i \in Range(nr) |-> -1],
             row4col |-> [j \in Range(nc) |-> -1]],
            nr, nc, cost, 0).col4row

\* as A_matrix_sample, writing at the reduced row index instead of map2RealRows[row]
A_matrix_sample_NoRowMap(cost, rep, K) ==
    LET rows == map2RealRows(rep, K)
        col_indexes == linear_sum_assignment(cost_matrix(cost, rep, K), Len(rows), K)
    IN  [i \in Range(K) |-> [j \in Range(K) |->
            IF i < Len(rows) /\ col_indexes[i] = j THEN WScale ELSE 0]]

\* lines 530-538: A_matrix[index_batch, map2RealRows[row], map2RealCols[col]] = 1
A_matrix_sample(cost, rep, K) ==
    LET rows == map2RealRows(rep, K)
        col_indexes == linear_sum_assignment(cost_matrix(cost, rep, K), Len(rows), K)
    IN  [i \in Range(K) |-> [j \in Range(K) |->
            IF \E r \in Range(Len(rows)) : rows[r + 1] = i /\ col_indexes[r] = j
            THEN WScale ELSE 0]]

-----------------------------------------------------------------------------
(* Loss Aggregator: bc.py 540-601 *)

\* a quotient n / d, kept exact
Rat(n, d) == <<n, d>>
RatAdd(x, y) == <<x[1] * y[2] + y[1] * x[2], x[2] * y[2]>>
RatEq(x, y) == x[1] * y[2] = y[1] * x[2]

Cells(B, K) == {<<b, i, j>> : b \in Range(B), i \in Range(K), j \in Range(K)}

\* as count_nonzero, but counting every expert of the batch
count_nonzero_Experts(A, B, K) == B * K

\* th.count_nonzero(A)
count_nonzero(A, B, K) == Cardinality({c \in Cells(B, K) : A[c[1]][c[2]][c[3]] # 0})

\* th.sum(A * D)
RECURSIVE SumCells(_, _, _)
SumCells(A, D, S) ==
    IF S = {} THEN 0
    ELSE LET c == CHOOSE x \in S : TRUE
         IN  A[c[1]][c[2]][c[3]] * D[c[1]][c[2]][c[3]] + SumCells(A, D, S \ {c})
sum_AD(A, D, B, K) == SumCells(A, D, Cells(B, K))

\* as component_loss, but dividing by the non-zero count of the weighting matrix
component_loss_OwnCount(A, D, n, B, K) ==
    Rat(sum_AD(A, D, B, K), count_nonzero(A, B, K))

\* th.sum(A * D) / num_nonzero_A: the divisor of every component loss (lines 542-552)
component_loss(A, D, n, B, K) == Rat(sum_AD(A, D, B, K), n)

\* as combined_loss, with the two flags guarding each other's component
combined_loss_Swapped(time_l, pos_l, yaw_l, c) ==
    LET l1 == IF ~c.use_closed_form_yaw_student THEN RatAdd(time_l, pos_l) ELSE time_l
    IN  IF ~c.make_yaw_NN THEN RatAdd(l1, yaw_l) ELSE l1

\* lines 568-580: the in-place additions to the variant's time loss
combined_loss(time_l, pos_l, yaw_l, c) ==
    LET l1 == IF ~c.make_yaw_NN THEN RatAdd(time_l, pos_l) ELSE time_l
    IN  IF ~c.use_closed_form_yaw_student THEN RatAdd(l1, yaw_l) ELSE l1

\* lines 582-589: the loss of the configured variant; "assert False" for any
\* other type_loss
selected_loss(loss_Hungarian, loss_RWTAr, loss_RWTAc, c) ==
    IF c.type_loss = "Hung" THEN [raised |-> FALSE, value |-> loss_Hungarian]
    ELSE IF c.type_loss = "RWTAr" THEN [raised |-> FALSE, value |-> loss_RWTAr]
    ELSE IF c.type_loss = "RWTAc" THEN [raised |-> FALSE, value |-> loss_RWTAc]
    ELSE [raised |-> TRUE]

-----------------------------------------------------------------------------
(* BC._calculate_loss, the branch of a policy that is not an ActorCriticPolicy *)

NoValue == <<>>

Failed(status) ==
    [status |-> status, is_repeated |-> NoValue,
     distance_pos_matrix |-> NoValue, distance_yaw_matrix |-> NoValue,
     distance_time_matrix |-> NoValue,
     A_matrix |-> NoValue, A_RWTAr_matrix |-> NoValue, A_RWTAc_matrix |-> NoValue,
     unbound |-> {}, num_nonzero_A |-> 0,
     losses |-> NoValue, loss |-> NoValue, stats_dict |-> NoValue]

\* pred_acts[:, j, :] for j < K raises IndexError when pred_acts has fewer hypotheses
StudentIndexError(a, p) == \E j \in DOMAIN a[0] : j \notin DOMAIN p[0]

\* lines 540-601, given the matrices
aggregate(Dpos, Dyaw, Dtime, rep, A, Ar, Ac, n, B, K, c) ==
    [Failed("ok") EXCEPT
       !.is_repeated = rep,
       !.distance_pos_matrix = Dpos,
       !.distance_yaw_matrix = Dyaw,
       !.distance_time_matrix = Dtime,
       !.A_matrix = A, !.A_RWTAr_matrix = Ar, !.A_RWTAc_matrix = Ac,
       !.num_nonzero_A = n,
       !.losses = [Hung |-> [pos |-> component_loss(A, Dpos, n, B, K),
                             yaw |-> component_loss(A, Dyaw, n, B, K),
                             time |-> component_loss(A, Dtime, n, B, K)],
                   RWTAr |-> [pos |-> component_loss(Ar, Dpos, n, B, K),
                              yaw |-> component_loss(Ar, Dyaw, n, B, K),
                              time |-> component_loss(Ar, Dtime, n, B, K)],
                   RWTAc |-> [pos |-> component_loss(Ac, Dpos, n, B, K),
                              yaw |-> component_loss(Ac, Dyaw, n, B, K),
                              time |-> component_loss(Ac, Dtime, n, B, K)]]]

\* lines 568-601, given the component losses l of the three variants
combine(o, l, c) ==
    IF selected_loss(l.Hung.time, l.RWTAr.time, l.RWTAc.time, c).raised
    THEN [o EXCEPT !.status = "AssertionError"]
    ELSE
    [o EXCEPT
       !.losses = [v \in {"Hung", "RWTAr", "RWTAc"} |->
                      [pos |-> l[v].pos, yaw |-> l[v].yaw, time |-> l[v].time,
                       total |-> combined_loss(l[v].time, l[v].pos, l[v].yaw, c)]],
       !.loss = selected_loss(combined_loss(l.Hung.time, l.Hung.pos, l.Hung.yaw, c),
                              combined_loss(l.RWTAr.time, l.RWTAr.pos, l.RWTAr.yaw, c),
                              combined_loss(l.RWTAc.time, l.RWTAc.pos, l.RWTAc.yaw, c),
                              c).value,
       \* loss_Hungarian = time_loss binds the same tensor, and += adds in
       \* place: time_loss.item() reads the tensor after the additions
       !.stats_dict = [loss_Hungarian |->
                           combined_loss(l.Hung.time, l.Hung.pos, l.Hung.yaw, c),
                       pos_loss |-> l.Hung.pos, yaw_loss |-> l.Hung.yaw,
                       time_loss |->
                           combined_loss(l.Hung.time, l.Hung.pos, l.Hung.yaw, c)]]

\* lines 439-601 for K > 1, given the distances and the mask
with_assignments(Dpos, Dyaw, Dtime, rep, A, Ar, Ac, B, K, c) ==
    IF \E b \in Range(B) : ~ColumnSumsAreOne(Ac[b], K)
    THEN Failed("AssertionError")
    ELSE IF \E b \in Range(B) : ~RowSumsAreOne(Ar[b], rep[b], K)
    THEN Failed("AssertionError")
    ELSE combine(aggregate(Dpos, Dyaw, Dtime, rep, A, Ar, Ac,
                           count_nonzero(A, B, K), B, K, c),
                 aggregate(Dpos, Dyaw, Dtime, rep, A, Ar, Ac,
                           count_nonzero(A, B, K), B, K, c).losses,
                 c)

\* lines 432-552 for K = 1: A_matrix stays th.ones(...), and line 546 reads
\* A_RWTAr_matrix, which only the K > 1 branch assigns
single_hypothesis(Dpos, Dyaw, Dtime, rep, A, B, K) ==
    [Failed("UnboundLocalError") EXCEPT
       !.is_repeated = rep,
       !.distance_pos_matrix = Dpos,
       !.distance_yaw_matrix = Dyaw,
       !.distance_time_matrix = Dtime,
       !.A_matrix = A,
       !.unbound = {"A_RWTAr_matrix", "A_RWTAc_matrix"},
       !.num_nonzero_A = count_nonzero(A, B, K)]

with_distances(Dpos, Dyaw, Dtime, rep, B, K, c) ==
    IF K > 1
    THEN with_assignments(Dpos, Dyaw, Dtime, rep,
                          Tensor([b \in Range(B) |->
                                     A_matrix_sample(Dpos[b], rep[b], K)]),
                          Tensor([b \in Range(B) |->
                                     A_RWTAr_sample(Dpos[b], rep[b], K)]),
                          Tensor([b \in Range(B) |->
                                     A_RWTAc_sample(Dpos[b], rep[b], K)]),
                          B, K, c)
    ELSE single_hypothesis(Dpos, Dyaw, Dtime, rep,
                           Tensor([b \in Range(B) |-> [i \in Range(K) |->
                                      [j \in Range(K) |-> WScale]]]),
                           B, K)

\* None as a slice size makes the sum of line 403 a TypeError in the first
\* pass of the loops, before any distance is written
SizeTypeError(c) == c.traj_size_pos_ctrl_pts.is_none \/ c.traj_size_yaw_ctrl_pts.is_none

calculate_loss(a, p, c) ==
    IF 0 \notin DOMAIN p[0] THEN Failed("IndexError")
    ELSE IF SizeTypeError(c) THEN Failed("TypeError")
    ELSE IF StudentIndexError(a, p) THEN Failed("IndexError")
    ELSE with_distances(Tensor(distance_pos_matrix(a, p, c)),
                        Tensor(distance_yaw_matrix(a, p, c)),
                        Tensor(distance_time_matrix(a, p, c)),
                        Matrix(is_repeated(a, c)),
                        batch_size(a), num_of_traj_per_action(a), c)

CalculateLoss ==
    /\ pc = "start"
    /\ pc' = "done"
    /\ out' = calculate_loss(acts, pred_acts, cfg)
    /\ UNCHANGED <<iterator, acts, pred_acts, cfg, partial_trajectories, ret, drvVars>>

-----------------------------------------------------------------------------
(* Inputs *)

\* the constructor's defaults (bc.py 207-211): no slice sizes
DefaultCfg ==
    [traj_size_pos_ctrl_pts |-> None, traj_size_yaw_ctrl_pts |-> None,
     use_closed_form_yaw_student |-> FALSE, make_yaw_NN |-> FALSE,
     type_loss |-> "Hung"]

\* the defaults, with the slice sizes the caller passes
SizedCfg(P, Y) ==
    [DefaultCfg EXCEPT !.traj_size_pos_ctrl_pts = Some(P),
                       !.traj_size_yaw_ctrl_pts = Some(Y)]

\* hypothesis vectors [position | yaw | duration]; positions on a grid whose
\* steps are wider than the duplicate threshold
PosHyps == {<<2 * x, 0, 0>> : x \in 0 .. MaxPos}
Tensors(B, K, H) == [Range(B) -> [Range(K) -> H]]

\* no rollout driver is running
DrvIdle ==
    /\ args = [fn |-> "none"]
    /\ venv = [t |-> 0]
    /\ trajectories = <<>>
    /\ active = <<>>
    /\ num_demos = 0
    /\ tick = [n |-> 0]
    /\ stats = <<>>
    /\ result = [fn |-> "none"]

AccIdle ==
    /\ partial_trajectories = <<>>
    /\ ret = [op |-> "none"]
    /\ DrvIdle

InitLoss(B, K, Kp, He, Hs, c) ==
    /\ acts \in Tensors(B, K, He)
    /\ pred_acts \in Tensors(B, Kp, Hs)
    /\ iterator = NoIterator
    /\ cfg = c
    /\ pc = "start"
    /\ out = Failed("none")
    /\ AccIdle

\* one sample, K hypotheses on both sides differing in position
Init == \E K \in 1 .. MaxK : InitLoss(1, K, K, PosHyps, PosHyps, SizedCfg(1, 1))
Next == CalculateLoss
Spec == Init /\ [][Next]_vars

\* values of the yaw and duration components
AuxVals == 0 .. 1
\* expert hypotheses on a fine position grid, whose distances fall below, at
\* and above the duplicate threshold, with any yaw and duration
FineHyps == {<<x, y, t>> : x \in 0 .. MaxFinePos, y \in AuxVals, t \in AuxVals}

\* one sample of K experts that may nearly repeat each other
InitDup ==
    \E K \in 1 .. MaxK : InitLoss(1, K, K, FineHyps, {<<0, 0, 0>>}, SizedCfg(1, 1))
SpecDup == InitDup /\ [][Next]_vars

\* the configurations of the loss, on batches of one or two samples: the
\* three variants and a name that is none of them, with slice sizes of one
\* control point, and the constructor's defaults
Cfgs ==
    [traj_size_pos_ctrl_pts : {Some(1)}, traj_size_yaw_ctrl_pts : {Some(1)},
     use_closed_form_yaw_student : BOOLEAN, make_yaw_NN : BOOLEAN,
     type_loss : {"Hung", "RWTAr", "RWTAc", "WTA"}]
        \cup {DefaultCfg}
ExpertHypsLoss == {<<0, 0, 0>>, <<2, 1, 1>>}
StudentHypsLoss == {<<0, 0, 0>>, <<1, 0, 1>>, <<2, 1, 0>>}
InitAgg ==
    \E B \in 1 .. 2, K \in 1 .. 2, c \in Cfgs :
        InitLoss(B, K, K, ExpertHypsLoss, StudentHypsLoss, c)
SpecLoss == InitAgg /\ [][Next]_vars

\* tensors whose shapes need not agree with each other or with the slice sizes
ShapeCfgs == {SizedCfg(P, 1) : P \in 1 .. 2}
InitShape ==
    \E Kp \in 1 .. 3, c \in ShapeCfgs :
        InitLoss(1, 2, Kp, ExpertHypsLoss, StudentHypsLoss, c)
SpecShape == InitShape /\ [][Next]_vars

-----------------------------------------------------------------------------
(* TrajectoryAccumulator: rollout.py 40-100 *)

Keys == 0 .. MaxKey

\* step dictionaries: two seed observations, two full steps, and a step
\* without observation
StepDicts ==
    {[obs |-> 0], [obs |-> 1],
     [acts |-> 0, rews |-> 0, obs |-> 1, infos |-> 0],
     [acts |-> 1, rews |-> 1, obs |-> 2, infos |-> 1],
     [acts |-> 0, rews |-> 0]}

\* number of records held over all buffers
RECURSIVE Stored(_)
Stored(pt) ==
    IF DOMAIN pt = {} THEN 0
    ELSE LET k == CHOOSE x \in DOMAIN pt : TRUE
         IN Len(pt[k]) + Stored([x \in DOMAIN pt \ {k} |-> pt[x]])

\* as add_step, but refusing a first record that is not an observation alone
add_step_SeedChecked(pt, step_dict, key) ==
    IF key \notin DOMAIN pt /\ DOMAIN step_dict # {"obs"}
    THEN [partial_trajectories |-> pt, raised |-> TRUE]
    ELSE IF key \in DOMAIN pt
    THEN [partial_trajectories |-> [pt EXCEPT ![key] = Append(@, step_dict)],
          raised |-> FALSE]
    ELSE [partial_trajectories |-> pt @@ (key :> <<step_dict>>), raised |-> FALSE]

\* self.partial_trajectories[key].append(step_dict), on a defaultdict(list)
add_step(pt, step_dict, key) ==
    IF key \in DOMAIN pt
    THEN [partial_trajectories |-> [pt EXCEPT ![key] = Append(@, step_dict)],
          raised |-> FALSE]
    ELSE [partial_trajectories |-> pt @@ (key :> <<step_dict>>), raised |-> FALSE]

\* del self.partial_trajectories[key]
Without(pt, key) == [k \in DOMAIN pt \ {key} |-> pt[k]]

\* out_dict_unstacked[field]: the values of one field over the records that
\* hold it, in the order of the records
RECURSIVE Unstacked(_, _)
Unstacked(part_dicts, field) ==
    IF part_dicts = <<>> THEN <<>>
    ELSE LET rest == Unstacked(Tail(part_dicts), field)
         IN IF field \in DOMAIN Head(part_dicts)
            THEN <<Head(part_dicts)[field]>> \o rest
            ELSE rest

TrajFields == {"obs", "acts", "rews", "infos"}

\* out_dict_stacked: one stacked array for every field some record holds
out_dict_stacked(part_dicts) ==
    LET held == {f \in TrajFields : Unstacked(part_dicts, f) # <<>>}
    IN [f \in held |-> Unstacked(part_dicts, f)]

NoTraj == [raised |-> TRUE]
\* traj.infos is None
NoInfos == <<>>

\* types.TrajectoryWithRew(**fields, terminal=terminal): observations, actions
\* and rewards are required, info records are optional; the lengths must be
\* T + 1 observations for T actions, T rewards and (if given) T info records
TrajectoryWithRew(fields, terminal) ==
    IF ~({"obs", "acts", "rews"} \subseteq DOMAIN fields)
    THEN NoTraj
    ELSE IF \/ Len(fields.obs) # Len(fields.acts) + 1
            \/ Len(fields.rews) # Len(fields.acts)
            \/ "infos" \in DOMAIN fields /\ Len(fields.infos) # Len(fields.acts)
    THEN NoTraj
    ELSE [raised |-> FALSE,
          obs |-> fields.obs, acts |-> fields.acts, rews |-> fields.rews,
          infos |-> IF "infos" \in DOMAIN fields THEN fields.infos ELSE NoInfos,
          terminal |-> terminal]

\* as finish_trajectory, but leaving the finished buffer in place
finish_trajectory_KeepBuffer(pt, key, terminal) ==
    LET part_dicts == IF key \in DOMAIN pt THEN pt[key] ELSE <<>>
        traj == TrajectoryWithRew(out_dict_stacked(part_dicts), terminal)
    IN [partial_trajectories |-> pt, raised |-> traj.raised, traj |-> traj]

\* as finish_trajectory, but handing back an empty result for a buffer that
\* cannot be assembled
finish_trajectory_Lenient(pt, key, terminal) ==
    LET part_dicts == IF key \in DOMAIN pt THEN pt[key] ELSE <<>>
        traj == TrajectoryWithRew(out_dict_stacked(part_dicts), terminal)
    IN [partial_trajectories |-> Without(pt, key), raised |-> FALSE,
        traj |-> IF traj.raised
                 THEN [raised |-> FALSE, obs |-> <<>>, acts |-> <<>>,
                       rews |-> <<>>, infos |-> <<>>, terminal |-> terminal]
                 ELSE traj]

\* as finish_trajectory, but deleting the key only once the trajectory was
\* built and checked
finish_trajectory_DeleteLast(pt, key, terminal) ==
    LET part_dicts == IF key \in DOMAIN pt THEN pt[key] ELSE <<>>
        traj == TrajectoryWithRew(out_dict_stacked(part_dicts), terminal)
    IN [partial_trajectories |-> IF traj.raised THEN pt ELSE Without(pt, key),
        raised |-> traj.raised,
        traj |-> traj]

\* finish_trajectory: the buffer is taken and the key deleted first; the
\* trajectory is then built from the stacked fields and its lengths asserted
finish_trajectory(pt, key, terminal) ==
    LET part_dicts == IF key \in DOMAIN pt THEN pt[key] ELSE <<>>
        traj == TrajectoryWithRew(out_dict_stacked(part_dicts), terminal)
        asserted == IF traj.raised THEN FALSE
                    ELSE /\ Len(traj.rews) = Len(traj.acts)
                         /\ Len(traj.acts) = Len(traj.obs) - 1
    IN [partial_trajectories |-> Without(pt, key),
        raised |-> ~asserted,
        traj |-> IF asserted THEN traj ELSE NoTraj]

AddStep ==
    \E key \in Keys, step_dict \in StepDicts :
        /\ pc = "idle"
        /\ Stored(partial_trajectories) < MaxBuf
        /\ partial_trajectories' =
               add_step(partial_trajectories, step_dict, key).partial_trajectories
        /\ ret' = [op |-> "add_step", key |-> key, step_dict |-> step_dict,
                   fresh |-> key \notin DOMAIN partial_trajectories,
                   raised |-> add_step(partial_trajectories, step_dict, key).raised]
        /\ UNCHANGED <<iterator, acts, pred_acts, cfg, pc, out, drvVars>>

FinishTrajectory ==
    \E key \in Keys, terminal \in BOOLEAN :
        LET r == finish_trajectory(partial_trajectories, key, terminal)
        IN /\ pc = "idle"
           /\ partial_trajectories' = r.partial_trajectories
           /\ ret' = [op |-> "finish_trajectory", key |-> key,
                      terminal |-> terminal,
                      seeded |-> key \in DOMAIN partial_trajectories,
                      part_dicts |-> IF key \in DOMAIN partial_trajectories
                                     THEN partial_trajectories[key] ELSE <<>>,
                      raised |-> r.raised, traj |-> r.traj]
           /\ UNCHANGED <<iterator, acts, pred_acts, cfg, pc, out, drvVars>>

\* a new accumulator; no loss computation is under way
InitAcc ==
    /\ acts = <<>>
    /\ pred_acts = <<>>
    /\ iterator = NoIterator
    /\ cfg = DefaultCfg
    /\ pc = "idle"
    /\ out = Failed("none")
    /\ AccIdle
NextAcc == AddStep \/ FinishTrajectory
SpecAcc == InitAcc /\ [][NextAcc]_vars

-----------------------------------------------------------------------------
(* Rollout drivers: rollout.py 102-165, 171-249, 332-621 *)

\* venv.num_envs
NumEnvs == 2
Slots == Range(NumEnvs)

\* float values: finite numbers, NaN, +inf and -inf
Fin(x) == [k |-> "fin", v |-> x]
NaN == [k |-> "nan", v |-> 0]
PosInf == [k |-> "inf", v |-> 1]
NegInf == [k |-> "inf", v |-> -1]
\* floating-point addition on these values
FloatAdd(a, b) ==
    IF a.k = "nan" \/ b.k = "nan" THEN NaN
    ELSE IF a.k = "inf" THEN (IF b.k = "inf" /\ b.v # a.v THEN NaN ELSE a)
    ELSE IF b.k = "inf" THEN b
    ELSE Fin(a.v + b.v)
RECURSIVE np_sum(_)
np_sum(x) == IF x = <<>> THEN Fin(0) ELSE FloatAdd(Head(x), np_sum(Tail(x)))
np_isnan(a) == a.k = "nan"

\* np.isnan(np.sum(acts[i,:,:])) == False
counts_as_demo(act) == ~np_isnan(np_sum(act))

\* as CountDemos, but counting the actions of the active slots only
CountDemos_Active(a) ==
    Cardinality({i \in Slots : counts_as_demo(a[i]) /\ active[i]})

\* the well-formed actions of a batch, counted over all slots
CountDemos(a) == Cardinality({i \in Slots : counts_as_demo(a[i])})

\* observations of the environment: the one a slot shows after its t-th step,
\* and the first one of the episode that begins when the t-th step ended one
step_ob(i, t) == [slot |-> i, t |-> t, first |-> FALSE]
reset_ob(i, t) == [slot |-> i, t |-> t, first |-> TRUE]

\* venv.reset() called for the k-th time, after t steps: every slot shows the
\* first observation of an episode that this reset began
venv_reset(k, t) ==
    [i \in Slots |-> [slot |-> i, t |-> t, first |-> TRUE, reset |-> k]]

\* venv.step(acts) at the t-th step, for the done flags and the violation
\* flags the environment comes up with: obs, rews, dones, infos
venv_step(t, dones_env, flags) ==
    [obs |-> [i \in Slots |-> IF dones_env[i] THEN reset_ob(i, t) ELSE step_ob(i, t)],
     rews |-> [i \in Slots |-> i + t],
     dones |-> dones_env,
     infos |-> [i \in Slots |->
                   IF dones_env[i]
                   THEN flags[i] @@ [terminal_observation |-> step_ob(i, t)]
                   ELSE flags[i]]]

\* as IsSeeded, but asserting on the first slot only
IsSeeded_FirstSlot(pt, n) ==
    /\ 0 \in DOMAIN pt
    /\ pt[0] # <<>>
    /\ DOMAIN pt[0][1] = {"obs"}

\* the assertions of add_steps_and_auto_finish on every env_idx below n
IsSeeded(pt, n) ==
    \A env_idx \in Range(n) :
        /\ env_idx \in DOMAIN pt
        /\ pt[env_idx] # <<>>
        /\ DOMAIN pt[env_idx][1] = {"obs"}

\* as step_record, but always recording the observation the step returned
step_record_PostReset(b, env_idx) ==
    [acts |-> b.acts[env_idx],
     rews |-> b.rews[env_idx],
     obs |-> b.obs[env_idx],
     infos |-> b.infos[env_idx]]

\* the record add_steps_and_auto_finish adds for slot env_idx
step_record(b, env_idx) ==
    [acts |-> b.acts[env_idx],
     rews |-> b.rews[env_idx],
     obs |-> IF b.dones[env_idx] THEN b.infos[env_idx].terminal_observation
             ELSE b.obs[env_idx],
     infos |-> b.infos[env_idx]]

\* as auto_finish, but leaving the finished slot without a buffer
auto_finish_NoReseed(st, fin, b, env_idx) ==
    IF fin.raised
    THEN [partial_trajectories |-> fin.partial_trajectories, raised |-> TRUE,
          trajs |-> st.trajs]
    ELSE [partial_trajectories |-> fin.partial_trajectories,
          raised |-> FALSE,
          trajs |-> Append(st.trajs, fin.traj)]

\* a finished slot: its trajectory is collected and the slot is seeded again
\* with obs[env_idx]; a failing finish_trajectory ends the call
auto_finish(st, fin, b, env_idx) ==
    IF fin.raised
    THEN [partial_trajectories |-> fin.partial_trajectories, raised |-> TRUE,
          trajs |-> st.trajs]
    ELSE [partial_trajectories |->
              add_step(fin.partial_trajectories, [obs |-> b.obs[env_idx]],
                       env_idx).partial_trajectories,
          raised |-> FALSE,
          trajs |-> Append(st.trajs, fin.traj)]

\* as auto_step, but finishing the trajectory as a non-terminal one
auto_step_NonTerminal(st, added, b, env_idx) ==
    IF b.dones[env_idx]
    THEN auto_finish(st, finish_trajectory(added, env_idx, FALSE), b, env_idx)
    ELSE [st EXCEPT !.partial_trajectories = added]

\* the body of the loop over zip_iter, for one env_idx
auto_step(st, added, b, env_idx) ==
    IF b.dones[env_idx]
    THEN auto_finish(st, finish_trajectory(added, env_idx, TRUE), b, env_idx)
    ELSE [st EXCEPT !.partial_trajectories = added]

\* the loop over zip_iter from env_idx on
RECURSIVE auto_loop(_, _, _)
auto_loop(st, b, env_idx) ==
    IF env_idx = NumEnvs \/ st.raised THEN st
    ELSE auto_loop(
             auto_step(st,
                       add_step(st.partial_trajectories, step_record(b, env_idx),
                                env_idx).partial_trajectories,
                       b, env_idx),
             b, env_idx + 1)

\* add_steps_and_auto_finish on the batch b = [acts, obs, rews, dones, infos]
add_steps_and_auto_finish(pt, b) ==
    IF ~IsSeeded(pt, NumEnvs)
    THEN [partial_trajectories |-> pt, raised |-> TRUE, trajs |-> <<>>]
    ELSE auto_loop([partial_trajectories |-> pt, raised |-> FALSE, trajs |-> <<>>],
                   b, 0)

\* termination conditions: the closures of make_min_episodes and
\* make_min_timesteps, and the one of make_sample_until over its conditions;
\* "assert n >= 1" raises before a closure is made
make_min_episodes(n) ==
    IF n >= 1 THEN [raised |-> FALSE, fn |-> "min_episodes", n |-> n]
    ELSE [raised |-> TRUE]
make_min_timesteps(n) ==
    IF n >= 1 THEN [raised |-> FALSE, fn |-> "min_timesteps", n |-> n]
    ELSE [raised |-> TRUE]

RECURSIVE timesteps(_)
timesteps(trajs) ==
    IF trajs = <<>> THEN 0
    ELSE (Len(Head(trajs).obs) - 1) + timesteps(Tail(trajs))

\* as call_cond, but asking for more than n episodes
call_cond_Strict(cond, trajs) ==
    IF cond.fn = "min_episodes" THEN Len(trajs) > cond.n
    ELSE timesteps(trajs) >= cond.n

\* cond(trajectories) for a closure of make_min_episodes or make_min_timesteps
call_cond(cond, trajs) ==
    IF cond.fn = "min_episodes" THEN Len(trajs) >= cond.n
    ELSE timesteps(trajs) >= cond.n

\* make_sample_until without the check of min_episodes
make_sample_until_EpisodesUnchecked(min_timesteps, min_episodes) ==
    IF min_timesteps.is_none /\ min_episodes.is_none
    THEN [raised |-> TRUE]
    ELSE IF ~min_timesteps.is_none /\ min_timesteps.value <= 0
    THEN [raised |-> TRUE]
    ELSE [raised |-> FALSE,
          fn |-> "sample_until",
          conditions |->
              (IF min_timesteps.is_none THEN <<>>
               ELSE <<make_min_timesteps(min_timesteps.value)>>)
              \o (IF min_episodes.is_none THEN <<>>
                  ELSE <<make_min_episodes(min_episodes.value)>>)]

make_sample_until(min_timesteps, min_episodes) ==
    IF min_timesteps.is_none /\ min_episodes.is_none
    THEN [raised |-> TRUE]
    ELSE IF ~min_timesteps.is_none /\ min_timesteps.value <= 0
    THEN [raised |-> TRUE]
    ELSE IF ~min_episodes.is_none /\ min_episodes.value <= 0
    THEN [raised |-> TRUE]
    ELSE [raised |-> FALSE,
          fn |-> "sample_until",
          conditions |->
              (IF min_timesteps.is_none THEN <<>>
               ELSE <<make_min_timesteps(min_timesteps.value)>>)
              \o (IF min_episodes.is_none THEN <<>>
                  ELSE <<make_min_episodes(min_episodes.value)>>)]

\* a predicate that is content with one of its conditions
call_sample_until_Any(f, trajs) ==
    IF f.fn = "sample_until"
    THEN \E k \in 1 .. Len(f.conditions) : call_cond(f.conditions[k], trajs)
    ELSE call_cond(f, trajs)

\* sample_until(trajectories), for any of the three kinds of closure
call_sample_until(f, trajs) ==
    IF f.fn = "sample_until"
    THEN \A k \in 1 .. Len(f.conditions) : call_cond(f.conditions[k], trajs)
    ELSE call_cond(f, trajs)

\* rng.shuffle(x): for i from the last index down to the second, swap x[i]
\* with x[j], j being the rng's draw from 0 .. i (indices counted from 0)
RECURSIVE shuffle_from(_, _, _)
shuffle_from(x, draw, i) ==
    IF i < 1 THEN x
    ELSE shuffle_from([x EXCEPT ![i + 1] = x[draw[i] + 1],
                               ![draw[i] + 1] = x[i + 1]],
                      draw, i - 1)

\* as the shuffle, but copying x[j] over x[i] instead of swapping the two
shuffle_Overwrite(x, draw) ==
    LET RECURSIVE from(_, _)
        from(y, i) == IF i < 1 THEN y
                      ELSE from([y EXCEPT ![i + 1] = y[draw[i] + 1]], i - 1)
    IN from(x, Len(x) - 1)

shuffle(x, draw) == shuffle_from(x, draw, Len(x) - 1)

\* streams of draws an rng may give: draw[i] is in 0 .. i
MaxDraw == NumEnvs * (MaxTicks + 1)
Rngs ==
    {[i \in 1 .. MaxDraw |-> 0],
     [i \in 1 .. MaxDraw |-> i],
     [i \in 1 .. MaxDraw |-> i - 1],
     [i \in 1 .. MaxDraw |-> i \div 2]}

\* the observations the driver holds when an iteration begins: those of the
\* reset before the loop, then those the last venv.step returned
last_obs == IF tick.n = 0 THEN [i \in Slots |-> reset_ob(i, 0)] ELSE tick.obs

\* the calls of the loop body to the environment and the policy: the policy
\* is queried on the observations f_obs (its second argument, the result of
\* get_num_obs, is left out)
EnvQueries(f_obs) ==
    <<[call |-> "env_method", name |-> "get_num_obs"],
      [call |-> "env_method", name |-> "get_num_max_of_obst"],
      [call |-> "env_method", name |-> "get_CPs_per_obstacle"],
      [call |-> "get_actions", obs |-> f_obs]>>
\* as ForceDone, but signalling only once the counter has passed the target
ForceDone_Late(nd, total) ==
    IF nd > total THEN <<[call |-> "env_method", name |-> "forceDone"]>> ELSE <<>>

\* if(num_demos >= total): venv.env_method("forceDone")
ForceDone(nd, total) ==
    IF nd >= total THEN <<[call |-> "env_method", name |-> "forceDone"]>> ELSE <<>>
StepCall == <<[call |-> "step"]>>

\* as next_active, but deactivating every slot once the predicate holds
next_active_All(act, dones, f, trajs) ==
    IF f.fn # "None" /\ call_sample_until(f, trajs)
    THEN [i \in Slots |-> FALSE]
    ELSE act

\* as next_active, but leaving every slot active
next_active_Never(act, dones, f, trajs) == act

\* active &= ~dones, under "if sample_until is not None: if sample_until(...)"
next_active(act, dones, f, trajs) ==
    IF f.fn # "None" /\ call_sample_until(f, trajs)
    THEN [i \in Slots |-> act[i] /\ ~dones[i]]
    ELSE act

\* as masked_dones, but taking the environment's done flags as they come
masked_dones_Unmasked(dones_env, act) == dones_env

\* dones &= active
masked_dones(dones_env, act) == [i \in Slots |-> dones_env[i] /\ act[i]]

\* the end of one iteration of generate_trajectories: a is the action batch,
\* st the result of venv.step, nd the demo counter, dones the masked flags and
\* r the result of add_steps_and_auto_finish
loop_end(a, st, nd, dones, r) ==
    /\ num_demos' = nd
    /\ venv' = [venv EXCEPT !.t = @ + 1,
                            !.forceDone = @ + Len(ForceDone(nd, args.total_demos))]
    /\ partial_trajectories' = r.partial_trajectories
    /\ IF r.raised
       THEN pc' = "raised" /\ active' = active /\ trajectories' = trajectories
       ELSE /\ pc' = pc
            /\ trajectories' = trajectories \o r.trajs
            /\ active' = next_active(active, dones, args.sample_until,
                                     trajectories \o r.trajs)
    /\ tick' = [n |-> tick.n + 1,
                acts |-> a,
                num_demos |-> num_demos,
                active |-> active,
                dones_env |-> st.dones,
                dones |-> dones,
                new_trajs |-> r.trajs,
                raised |-> r.raised,
                obs |-> st.obs,
                calls |-> EnvQueries(last_obs) \o ForceDone(nd, args.total_demos)
                          \o StepCall]
    /\ UNCHANGED <<iterator, acts, pred_acts, cfg, out, ret, args, stats, result>>

loop_collect(a, st, nd, dones) ==
    loop_end(a, st, nd, dones,
             add_steps_and_auto_finish(
                 partial_trajectories,
                 [acts |-> a, obs |-> st.obs, rews |-> st.rews, dones |-> dones,
                  infos |-> st.infos]))

\* as Looping, but going on while the counter has not passed the target
Looping_UpTo ==
    /\ pc = "loop"
    /\ \E i \in Slots : active[i]
    /\ num_demos <= args.total_demos

\* as Looping, but going on whatever the demo counter
Looping_AnyActive ==
    /\ pc = "loop"
    /\ \E i \in Slots : active[i]

\* while np.any(active) and num_demos < total_demos
Looping ==
    /\ pc = "loop"
    /\ \E i \in Slots : active[i]
    /\ num_demos < args.total_demos

\* one iteration of the loop of generate_trajectories
Tick ==
    /\ args.fn = "generate_trajectories"
    /\ Looping
    /\ venv.t < MaxTicks
    /\ \E a \in [Slots -> args.policy], d \in venv.done_values,
          fl \in [Slots -> venv.info_values] :
           loop_collect(a, venv_step(venv.t + 1, d, fl), num_demos + CountDemos(a),
                        masked_dones(d, active))

\* generate_trajectories leaves the loop, shuffles and returns
Return ==
    /\ args.fn = "generate_trajectories"
    /\ pc = "loop"
    /\ ~Looping
    /\ \E draw \in Rngs :
           result' = [fn |-> "generate_trajectories",
                      trajectories |-> shuffle(trajectories, draw)]
    /\ pc' = "returned"
    /\ UNCHANGED <<iterator, acts, pred_acts, cfg, out, partial_trajectories, ret, args, venv,
                   trajectories, active, num_demos, tick, stats>>

\* how many slots of an info batch report a violation of one kind
CountFlag(infos, name) == Cardinality({i \in Slots : infos[i][name]})
\* "not is_nan_action and (any of the three violations)", counted over infos
CountViolating(infos, is_nan_action) ==
    IF is_nan_action THEN 0
    ELSE Cardinality({i \in Slots :
             \/ infos[i].obst_avoidance_violation
             \/ infos[i].trans_dyn_lim_violation
             \/ infos[i].yaw_dyn_lim_violation})

\* as BenchReset, but querying the policy on the observations the driver
\* held before the reset
BenchReset_Stale(k, t) ==
    <<[call |-> "reset", result |-> venv_reset(k, t)]>> \o EnvQueries(last_obs)

\* f_obs = venv.reset(), the k-th reset after t steps, and the queries of the
\* environment and of the policy on f_obs
BenchReset(k, t) ==
    <<[call |-> "reset", result |-> venv_reset(k, t)]>>
        \o EnvQueries(venv_reset(k, t))

\* venv.env_method("saveInBag", f_acts[i], indices=[i]) for every slot
SaveInBag(a) ==
    [k \in 1 .. NumEnvs |->
        [call |-> "env_method", name |-> "saveInBag", arg |-> a[k - 1],
         indices |-> <<k - 1>>]]

\* the end of one iteration of generate_trajectories_for_benchmark: a is the
\* action batch, st the result of venv.step, valid the number of slots counted
\* as demos
bench_end(a, st, valid) ==
    /\ num_demos' = num_demos + valid
    /\ venv' = [venv EXCEPT
                   !.t = @ + 1,
                   !.resets = @ + 1,
                   !.forceDone = @ + Len(ForceDone(num_demos + valid, args.total_demos))]
    /\ stats' =
           [total_obs_avoidance_failure |->
                stats.total_obs_avoidance_failure
                    + CountFlag(st.infos, "obst_avoidance_violation"),
            total_trans_dyn_limit_failure |->
                stats.total_trans_dyn_limit_failure
                    + CountFlag(st.infos, "trans_dyn_lim_violation"),
            total_yaw_dyn_limit_failure |->
                stats.total_yaw_dyn_limit_failure
                    + CountFlag(st.infos, "yaw_dyn_lim_violation"),
            total_failure |->
                stats.total_failure + (NumEnvs - valid)
                    + CountViolating(st.infos, valid < NumEnvs),
            computation_times |-> Append(stats.computation_times, venv.t + 1),
            costs |-> stats.costs \o [k \in 1 .. NumEnvs |-> 0 - st.rews[k - 1]]]
    /\ tick' = [n |-> tick.n + 1,
                acts |-> a,
                num_demos |-> num_demos,
                active |-> active,
                dones_env |-> st.dones,
                infos |-> st.infos,
                obs |-> st.obs,
                calls |-> BenchReset(venv.resets + 1, venv.t)
                          \o ForceDone(num_demos + valid, args.total_demos)
                          \o StepCall \o SaveInBag(a)]
    /\ UNCHANGED <<iterator, acts, pred_acts, cfg, out, pc, partial_trajectories, ret, args,
                   trajectories, active, result>>

\* one iteration of the loop of generate_trajectories_for_benchmark
BenchTick ==
    /\ args.fn = "generate_trajectories_for_benchmark"
    /\ Looping
    /\ venv.t < MaxTicks
    /\ \E a \in [Slots -> args.policy], d \in venv.done_values,
          fl \in [Slots -> venv.info_values] :
           bench_end(a, venv_step(venv.t + 1, d, fl), CountDemos(a))

\* generate_trajectories_for_benchmark leaves the loop and returns
BenchReturn ==
    /\ args.fn = "generate_trajectories_for_benchmark"
    /\ pc = "loop"
    /\ ~Looping
    /\ result' = [fn |-> "generate_trajectories_for_benchmark",
                  total_obs_avoidance_failure |-> stats.total_obs_avoidance_failure,
                  total_trans_dyn_limit_failure |-> stats.total_trans_dyn_limit_failure,
                  total_yaw_dyn_limit_failure |-> stats.total_yaw_dyn_limit_failure,
                  total_failure |-> stats.total_failure,
                  computation_times |-> stats.computation_times,
                  costs |-> stats.costs,
                  num_demos |-> num_demos]
    /\ pc' = "returned"
    /\ UNCHANGED <<iterator, acts, pred_acts, cfg, out, partial_trajectories, ret, args, venv,
                   trajectories, active, num_demos, tick, stats>>

\* what step infos may report
NoViolation ==
    [obst_avoidance_violation |-> FALSE, trans_dyn_lim_violation |-> FALSE,
     yaw_dyn_lim_violation |-> FALSE]
InfoFlags ==
    [obst_avoidance_violation : BOOLEAN, trans_dyn_lim_violation : BOOLEAN,
     yaw_dyn_lim_violation : BOOLEAN]

\* the state of a driver when it reaches its loop: the environment reset, the
\* accumulator seeded with every slot's first observation, all slots active
DriverStart(fn, policy, f, total, done_values, info_values) ==
    /\ acts = <<>>
    /\ pred_acts = <<>>
    /\ iterator = NoIterator
    /\ cfg = DefaultCfg
    /\ out = Failed("none")
    /\ ret = [op |-> "none"]
    /\ pc = "loop"
    /\ args = [fn |-> fn, policy |-> policy, sample_until |-> f,
               total_demos |-> total]
    /\ venv = [t |-> 0, resets |-> 1, forceDone |-> 0,
               done_values |-> done_values, info_values |-> info_values]
    /\ partial_trajectories = [i \in Slots |-> <<[obs |-> reset_ob(i, 0)]>>]
    /\ trajectories = <<>>
    /\ active = [i \in Slots |-> TRUE]
    /\ num_demos = 0
    /\ tick = [n |-> 0]
    /\ stats = IF fn = "generate_trajectories_for_benchmark"
               THEN [total_obs_avoidance_failure |-> 0,
                     total_trans_dyn_limit_failure |-> 0,
                     total_yaw_dyn_limit_failure |-> 0,
                     total_failure |-> 0,
                     computation_times |-> <<>>,
                     costs |-> <<>>]
               ELSE <<>>
    /\ result = [fn |-> "none"]

\* actions of a policy: well-formed, holding a NaN, holding both infinities,
\* holding one infinity
OkAct == <<Fin(0), Fin(1)>>
NanAct == <<NaN, Fin(0)>>
InfsAct == <<PosInf, NegInf>>
InfAct == <<PosInf, Fin(0)>>

\* sample_until = None
NoPredicate == [fn |-> "None"]
SampleUntils ==
    {NoPredicate, make_min_episodes(1), make_min_episodes(2), make_min_timesteps(2),
     make_sample_until(Some(3), Some(1))}
\* total_demos_per_round: float("inf") or a finite target
Targets == {Infinity} \cup (1 .. MaxTarget)
AllDones == [Slots -> BOOLEAN]

\* generate_trajectories with a policy that may give NaN actions
InitRollout ==
    \E f \in SampleUntils, total \in Targets :
        DriverStart("generate_trajectories", {OkAct, NanAct}, f, total, AllDones,
                    {NoViolation})
NextRollout == Tick \/ Return
SpecRollout == InitRollout /\ [][NextRollout]_vars

\* both drivers with a policy whose actions may also hold infinities, in an
\* environment whose episodes do not end
ObstViolation == [NoViolation EXCEPT !.obst_avoidance_violation = TRUE]
Drivers == {"generate_trajectories", "generate_trajectories_for_benchmark"}
InitCount ==
    \E fn \in Drivers, total \in 1 .. MaxTarget :
        DriverStart(fn, {OkAct, NanAct, InfsAct, InfAct}, NoPredicate, total,
                    {[i \in Slots |-> FALSE]}, {NoViolation})
NextCount == Tick \/ Return \/ BenchTick \/ BenchReturn
SpecCount == InitCount /\ [][NextCount]_vars

\* generate_trajectories_for_benchmark with a finite target; the loop is not
\* held up for ever once its body can run
InitBench ==
    \E total \in 1 .. MaxTarget :
        DriverStart("generate_trajectories_for_benchmark", {OkAct, NanAct},
                    NoPredicate, total,
                    {[i \in Slots |-> FALSE], [i \in Slots |-> TRUE]},
                    {NoViolation, ObstViolation})
NextBench == BenchTick \/ BenchReturn
SpecBench == InitBench /\ [][NextBench]_vars /\ WF_vars(NextBench)

-----------------------------------------------------------------------------
(* flatten_trajectories: rollout.py 692-727 *)

RECURSIVE concatenate(_)
concatenate(part_list) ==
    IF part_list = <<>> THEN <<>>
    ELSE Head(part_list) \o concatenate(Tail(part_list))

\* obs[:-1]
AllButLast(x) == SubSeq(x, 1, Len(x) - 1)

\* as traj_dones, but flagging the first transition of the trajectory
traj_dones_First(traj) ==
    [k \in 1 .. Len(traj.acts) |-> k = 1 /\ traj.terminal]

\* dones = np.zeros(len(traj.acts), dtype=bool); dones[-1] = traj.terminal
traj_dones(traj) ==
    [k \in 1 .. Len(traj.acts) |-> k = Len(traj.acts) /\ traj.terminal]

\* infos = np.array([{}] * len(traj)) if traj.infos is None else traj.infos
traj_infos(traj) ==
    IF traj.infos = NoInfos THEN [k \in 1 .. Len(traj.acts) |-> <<>>]
    ELSE traj.infos

\* parts[key] of flatten_trajectories: the list of one array per trajectory
parts(trajs, key) ==
    [k \in 1 .. Len(trajs) |->
        CASE key = "acts" -> trajs[k].acts
          [] key = "obs" -> AllButLast(trajs[k].obs)
          [] key = "next_obs" -> Tail(trajs[k].obs)
          [] key = "dones" -> traj_dones(trajs[k])
          [] key = "infos" -> traj_infos(trajs[k])]

TransitionKeys == {"obs", "next_obs", "acts", "dones", "infos"}

\* flatten_trajectories: np.concatenate refuses an empty list of arrays; the
\* concatenated fields must have one common length
flatten_trajectories(trajs) ==
    IF trajs = <<>> THEN [raised |-> TRUE]
    ELSE LET cat_parts == [key \in TransitionKeys |-> concatenate(parts(trajs, key))]
         IN IF Cardinality({Len(cat_parts[key]) : key \in TransitionKeys}) # 1
            THEN [raised |-> TRUE]
            ELSE [raised |-> FALSE,
                  obs |-> cat_parts["obs"],
                  next_obs |-> cat_parts["next_obs"],
                  acts |-> cat_parts["acts"],
                  dones |-> cat_parts["dones"],
                  infos |-> cat_parts["infos"]]

FlattenTrajectories ==
    /\ pc = "flatten"
    /\ pc' = "flattened"
    /\ result' = [fn |-> "flatten_trajectories"] @@ flatten_trajectories(trajectories)
    /\ UNCHANGED <<iterator, acts, pred_acts, cfg, out, partial_trajectories, ret, args, venv,
                   trajectories, active, num_demos, tick, stats>>

\* trajectories of 1 .. MaxLen steps: observations and actions numbered from a
\* base, with or without info records, terminal or not
TrajBases == {0, 10}
TrajInputs ==
    {[obs |-> [k \in 1 .. T + 1 |-> base + k - 1],
      acts |-> [k \in 1 .. T |-> base + k],
      rews |-> [k \in 1 .. T |-> k],
      infos |-> IF with_infos THEN [k \in 1 .. T |-> [step |-> k]] ELSE NoInfos,
      terminal |-> terminal] :
        T \in 1 .. MaxLen, base \in TrajBases, with_infos \in BOOLEAN,
        terminal \in BOOLEAN}
TrajLists == UNION {[1 .. n -> TrajInputs] : n \in 0 .. MaxTrajs}

InitFlatten ==
    /\ acts = <<>>
    /\ pred_acts = <<>>
    /\ iterator = NoIterator
    /\ cfg = DefaultCfg
    /\ out = Failed("none")
    /\ pc = "flatten"
    /\ partial_trajectories = <<>>
    /\ ret = [op |-> "none"]
    /\ args = [fn |-> "flatten_trajectories"]
    /\ venv = [t |-> 0]
    /\ trajectories \in TrajLists
    /\ active = <<>>
    /\ num_demos = 0
    /\ tick = [n |-> 0]
    /\ stats = <<>>
    /\ result = [fn |-> "none"]
NextFlatten == FlattenTrajectories
SpecFlatten == InitFlatten /\ [][NextFlatten]_vars

-----------------------------------------------------------------------------
(* make_sample_until and the predicate it returns (rollout.py 171-249): the  *)
(* caller builds the predicate, then calls it on a list of trajectories that *)
(* grows between the calls.                                                  *)

\* the values given for min_timesteps and min_episodes: None or an integer,
\* non-positive ones included
OptBounds == {None} \cup {Some(n) : n \in -1 .. MaxTarget}

MakeSampleUntil ==
    /\ args.fn = "make_sample_until"
    /\ pc = "make"
    /\ pc' = "made"
    /\ result' = make_sample_until(args.min_timesteps, args.min_episodes)
    /\ UNCHANGED <<iterator, acts, pred_acts, cfg, out, partial_trajectories, ret, args, venv,
                   trajectories, active, num_demos, tick, stats>>

\* make_min_episodes(n) called by itself
MakeMinEpisodes ==
    /\ args.fn = "make_min_episodes"
    /\ pc = "make"
    /\ pc' = "made"
    /\ result' = make_min_episodes(args.n)
    /\ UNCHANGED <<iterator, acts, pred_acts, cfg, out, partial_trajectories, ret, args, venv,
                   trajectories, active, num_demos, tick, stats>>

\* make_min_timesteps(n) called by itself
MakeMinTimesteps ==
    /\ args.fn = "make_min_timesteps"
    /\ pc = "make"
    /\ pc' = "made"
    /\ result' = make_min_timesteps(args.n)
    /\ UNCHANGED <<iterator, acts, pred_acts, cfg, out, partial_trajectories, ret, args, venv,
                   trajectories, active, num_demos, tick, stats>>

\* the predicate called on the caller's list
CallSampleUntil ==
    /\ pc = "made"
    /\ ~result.raised
    /\ pc' = "called"
    /\ ret' = [op |-> "sample_until",
               value |-> call_sample_until(result, trajectories)]
    /\ UNCHANGED <<iterator, acts, pred_acts, cfg, out, partial_trajectories, args, venv,
                   trajectories, active, num_demos, tick, stats, result>>

\* the trajectories a caller appends: terminal ones of 1 .. MaxLen steps
UntilTrajs == {t \in TrajInputs : t.obs[1] = 0 /\ t.infos = NoInfos /\ t.terminal}

\* trajectories.extend(...) by the caller between two calls of the predicate
ExtendTrajs ==
    /\ pc = "called"
    /\ Len(trajectories) < MaxTrajs
    /\ pc' = "made"
    /\ \E t \in UntilTrajs : trajectories' = Append(trajectories, t)
    /\ UNCHANGED <<iterator, acts, pred_acts, cfg, out, partial_trajectories, ret, args, venv,
                   active, num_demos, tick, stats, result>>

InitUntil ==
    /\ acts = <<>>
    /\ pred_acts = <<>>
    /\ iterator = NoIterator
    /\ cfg = DefaultCfg
    /\ out = Failed("none")
    /\ pc = "make"
    /\ partial_trajectories = <<>>
    /\ ret = [op |-> "none"]
    /\ \/ \E min_timesteps \in OptBounds, min_episodes \in OptBounds :
              args = [fn |-> "make_sample_until",
                      min_timesteps |-> min_timesteps,
                      min_episodes |-> min_episodes]
       \/ \E fn \in {"make_min_episodes", "make_min_timesteps"},
             n \in -1 .. MaxTarget :
              args = [fn |-> fn, n |-> n]
    /\ venv = [t |-> 0]
    /\ trajectories = <<>>
    /\ active = <<>>
    /\ num_demos = 0
    /\ tick = [n |-> 0]
    /\ stats = <<>>
    /\ result = [fn |-> "none"]
NextUntil ==
    MakeSampleUntil \/ MakeMinEpisodes \/ MakeMinTimesteps \/ CallSampleUntil
        \/ ExtendTrajs
SpecUntil == InitUntil /\ [][NextUntil]_vars

-----------------------------------------------------------------------------
(* The callers of generate_trajectories (rollout.py 623-689, 730-776):       *)
(* generate_transitions and mean_return run the driver and work on the list  *)
(* it returns.                                                               *)

\* flatten_trajectories_with_rew: the transitions with the concatenated rewards
flatten_trajectories_with_rew(trajs) ==
    LET transitions == flatten_trajectories(trajs)
    IN IF transitions.raised THEN [raised |-> TRUE]
       ELSE [rews |-> concatenate([k \in 1 .. Len(trajs) |-> trajs[k].rews])]
            @@ transitions

\* arr[:n]
Prefix(arr, n) ==
    IF n >= 0 THEN SubSeq(arr, 1, IF n < Len(arr) THEN n ELSE Len(arr))
    ELSE SubSeq(arr, 1, Len(arr) + n)

TransitionWithRewKeys == TransitionKeys \cup {"rews"}

\* {k: arr[:n_timesteps] for k, arr in as_dict.items()}
truncated(transitions, n_timesteps) ==
    [raised |-> FALSE] @@
    [k \in TransitionWithRewKeys |-> Prefix(transitions[k], n_timesteps)]

\* generate_transitions from the list its call of generate_trajectories gave
generate_transitions(traj, n_timesteps, truncate) ==
    LET transitions == flatten_trajectories_with_rew(traj)
    IN IF transitions.raised THEN transitions
       ELSE IF truncate THEN truncated(transitions, n_timesteps)
       ELSE transitions

\* generate_transitions after its call of generate_trajectories returned
GenerateTransitions ==
    /\ args.caller = "generate_transitions"
    /\ pc = "returned"
    /\ result' = [fn |-> "generate_transitions"]
                 @@ generate_transitions(result.trajectories, args.n_timesteps,
                                         args.truncate)
    /\ pc' = IF result'.raised THEN "raised" ELSE "transitions"
    /\ UNCHANGED <<iterator, acts, pred_acts, cfg, out, partial_trajectories, ret, args, venv,
                   trajectories, active, num_demos, tick, stats>>

\* a caller's call of generate_trajectories at its loop: the arguments the
\* caller passes on, the caller's own ones kept beside them
CallerStart(own, policy, f, total, done_values) ==
    /\ acts = <<>>
    /\ pred_acts = <<>>
    /\ iterator = NoIterator
    /\ cfg = DefaultCfg
    /\ out = Failed("none")
    /\ ret = [op |-> "none"]
    /\ pc = "loop"
    /\ args = [fn |-> "generate_trajectories", policy |-> policy,
               sample_until |-> f, total_demos |-> total] @@ own
    /\ venv = [t |-> 0, resets |-> 1, forceDone |-> 0,
               done_values |-> done_values, info_values |-> {NoViolation}]
    /\ partial_trajectories = [i \in Slots |-> <<[obs |-> reset_ob(i, 0)]>>]
    /\ trajectories = <<>>
    /\ active = [i \in Slots |-> TRUE]
    /\ num_demos = 0
    /\ tick = [n |-> 0]
    /\ stats = <<>>
    /\ result = [fn |-> "none"]

\* generate_transitions(policy, venv, n_timesteps, truncate=..., **kwargs), the
\* kwargs holding total_demos_per_round or not
InitTransitions ==
    \E n_timesteps \in 1 .. MaxTarget, truncate \in BOOLEAN, total \in Targets :
        CallerStart([caller |-> "generate_transitions",
                     n_timesteps |-> n_timesteps, truncate |-> truncate],
                    {OkAct}, make_min_timesteps(n_timesteps), total, AllDones)
NextTransitions == Tick \/ Return \/ GenerateTransitions
SpecTransitions == InitTransitions /\ [][NextTransitions]_vars

\* sum, np.min and np.max of a list of numbers
RECURSIVE SumOf(_)
SumOf(vals) == IF vals = <<>> THEN 0 ELSE Head(vals) + SumOf(Tail(vals))
np_min(vals) == CHOOSE x \in {vals[k] : k \in 1 .. Len(vals)} :
                    \A k \in 1 .. Len(vals) : x <= vals[k]
np_max(vals) == CHOOSE x \in {vals[k] : k \in 1 .. Len(vals)} :
                    \A k \in 1 .. Len(vals) : x >= vals[k]
\* np.mean as a quotient; np.std as the root of a quotient, the variance
np_mean(vals) == Rat(SumOf(vals), Len(vals))
np_std(vals) ==
    [sqrt_of |-> Rat(Len(vals) * SumOf([k \in 1 .. Len(vals) |-> vals[k] * vals[k]])
                         - SumOf(vals) * SumOf(vals),
                     Len(vals) * Len(vals))]

\* the returns Monitor wrote into the last info record of a trajectory
RECURSIVE monitor_ep_returns(_)
monitor_ep_returns(trajs) ==
    IF trajs = <<>> THEN <<>>
    ELSE LET t == Head(trajs)
         IN (IF /\ t.infos # NoInfos
                /\ "episode" \in DOMAIN t.infos[Len(t.infos)]
                /\ "r" \in DOMAIN t.infos[Len(t.infos)].episode
             THEN <<t.infos[Len(t.infos)].episode.r>> ELSE <<>>)
            \o monitor_ep_returns(Tail(trajs))

traj_descriptors(trajs) ==
    [return |-> [k \in 1 .. Len(trajs) |-> SumOf(trajs[k].rews)],
     len |-> [k \in 1 .. Len(trajs) |-> Len(trajs[k].rews)]]
    @@ (IF monitor_ep_returns(trajs) # <<>>
        THEN [monitor_return |-> monitor_ep_returns(trajs)] ELSE <<>>)

out_stats(trajs, descriptors) ==
    [n_traj |-> Len(trajs),
     return_min |-> np_min(descriptors.return),
     return_mean |-> np_mean(descriptors.return),
     return_std |-> np_std(descriptors.return),
     return_max |-> np_max(descriptors.return),
     len_min |-> np_min(descriptors.len),
     len_mean |-> np_mean(descriptors.len),
     len_std |-> np_std(descriptors.len),
     len_max |-> np_max(descriptors.len)]
    @@ (IF "monitor_return" \in DOMAIN descriptors
        THEN [monitor_return_len |-> Len(descriptors.monitor_return),
              monitor_return_min |-> np_min(descriptors.monitor_return),
              monitor_return_mean |-> np_mean(descriptors.monitor_return),
              monitor_return_std |-> np_std(descriptors.monitor_return),
              monitor_return_max |-> np_max(descriptors.monitor_return)]
        ELSE <<>>)

\* rollout_stats: "assert len(trajectories) > 0", then
\* "return out_stats, traj_descriptors", a tuple of the two
rollout_stats(trajs) ==
    IF Len(trajs) = 0 THEN [raised |-> TRUE, exc |-> "AssertionError"]
    ELSE [raised |-> FALSE,
          type |-> "tuple",
          value |-> <<out_stats(trajs, traj_descriptors(trajs)),
                      traj_descriptors(trajs)>>]

\* x[key] for a string key: a dict gives the entry, a tuple takes integer
\* indices only
getitem(x, key) ==
    IF x.type = "tuple" THEN [raised |-> TRUE, exc |-> "TypeError"]
    ELSE IF key \in DOMAIN x.value THEN [raised |-> FALSE, value |-> x.value[key]]
    ELSE [raised |-> TRUE, exc |-> "KeyError"]

\* mean_return from the list its call of generate_trajectories gave
mean_return(trajs) ==
    IF rollout_stats(trajs).raised THEN rollout_stats(trajs)
    ELSE getitem(rollout_stats(trajs), "return_mean")

\* mean_return after its call of generate_trajectories returned
MeanReturn ==
    /\ args.caller = "mean_return"
    /\ pc = "returned"
    /\ result' = [fn |-> "mean_return"] @@ mean_return(result.trajectories)
    /\ pc' = IF result'.raised THEN "raised" ELSE "mean_returned"
    /\ UNCHANGED <<iterator, acts, pred_acts, cfg, out, partial_trajectories, ret, args, venv,
                   trajectories, active, num_demos, tick, stats>>

\* mean_return(policy, venv, sample_until, total_demos_per_round=...)
InitMeanReturn ==
    \E f \in {NoPredicate, make_min_episodes(1), make_min_episodes(2)},
       total \in Targets :
        CallerStart([caller |-> "mean_return"], {OkAct}, f, total, AllDones)
NextMeanReturn == Tick \/ Return \/ MeanReturn
SpecMeanReturn == InitMeanReturn /\ [][NextMeanReturn]_vars

-----------------------------------------------------------------------------
(* EpochOrBatchIteratorWithProgress (bc.py 74-182): the constructor, the     *)
(* call of __iter__, and its generator as the consumer resumes it, one       *)
(* action per resumption.                                                    *)

\* a data loader: the sizes of the batches one pass over it gives, in order
Loaders == UNION {[1 .. n -> 0 .. MaxBatchSize] : n \in 0 .. MaxBatches}
\* n_epochs and n_batches: None or a number
OptCounts == {None} \cup {Some(n) : n \in 0 .. MaxRuns}
\* on_epoch_end and on_batch_end: None or a callback
OptCallbacks == {None, Some("callback")}

\* __init__
EpochOrBatchIteratorWithProgress(a) ==
    IF a.n_epochs.is_none = a.n_batches.is_none
    THEN [fn |-> "EpochOrBatchIteratorWithProgress", raised |-> TRUE]
    ELSE [fn |-> "EpochOrBatchIteratorWithProgress",
          raised |-> FALSE,
          use_epochs |-> ~a.n_epochs.is_none,
          data_loader |-> a.data_loader,
          n_epochs |-> a.n_epochs,
          n_batches |-> a.n_batches,
          on_epoch_end |-> a.on_epoch_end,
          on_batch_end |-> a.on_batch_end]

\* the generator of __iter__ before its first resumption: pos counts the
\* batches taken in the running pass, display the calls of display.update(1),
\* events what the consumer and the callbacks have seen
NewGenerator ==
    [state |-> "created", samples_so_far |-> 0, epoch_num |-> 0, batch_num |-> 0,
     got_data_on_epoch |-> FALSE, pos |-> 0, display |-> 0, events |-> <<>>]

\* self.on_batch_end() or self.on_epoch_end(), if not None
callback(g, f, name) ==
    IF f.is_none THEN g ELSE [g EXCEPT !.events = Append(@, [ev |-> name])]

\* the body of "for batch in self.data_loader" up to the yield, for the batch
\* the loader gives next
for_body(g, n_samples) ==
    IF n_samples > 0
    THEN [g EXCEPT !.state = "suspended",
                   !.pos = @ + 1,
                   !.got_data_on_epoch = TRUE,
                   !.batch_num = @ + 1,
                   !.samples_so_far = @ + n_samples,
                   !.events = Append(@, [ev |-> "yield",
                                         batch |-> g.pos + 1,
                                         batch_size |-> n_samples,
                                         stats |-> [epoch_num |-> g.epoch_num,
                                                    batch_num |-> g.batch_num + 1,
                                                    samples_so_far |->
                                                        g.samples_so_far + n_samples]])]
    ELSE [g EXCEPT !.state = "raised",
                   !.pos = @ + 1,
                   !.got_data_on_epoch = TRUE,
                   !.batch_num = @ + 1]

\* the code after the for loop: the epoch is counted and, in epoch mode, the
\* generator returns at n_epochs
epoch_end(self, g) ==
    IF ~g.got_data_on_epoch THEN [g EXCEPT !.state = "raised"]
    ELSE LET e == callback([g EXCEPT !.epoch_num = @ + 1], self.on_epoch_end,
                           "on_epoch_end")
         IN IF ~self.use_epochs THEN e
            ELSE IF e.epoch_num >= self.n_epochs.value
            THEN [e EXCEPT !.state = "returned", !.display = @ + 1]
            ELSE [e EXCEPT !.display = @ + 1]

\* the for loop asks the loader for its next batch: the body runs up to the
\* yield, or the pass is over and "while True" begins another one
RECURSIVE next_batch(_, _)
next_batch(self, g) ==
    IF g.pos < Len(self.data_loader)
    THEN for_body(g, self.data_loader[g.pos + 1])
    ELSE IF epoch_end(self, g).state \in {"raised", "returned"}
    THEN epoch_end(self, g)
    ELSE next_batch(self, [epoch_end(self, g) EXCEPT !.pos = 0,
                                                       !.got_data_on_epoch = FALSE])

\* the body of the for loop after the yield: on_batch_end and, in batch mode,
\* the return at n_batches
after_yield(self, g) ==
    LET b == callback(g, self.on_batch_end, "on_batch_end")
    IN IF self.use_epochs THEN b
       ELSE IF b.batch_num >= self.n_batches.value
       THEN [b EXCEPT !.state = "returned", !.display = @ + 1]
       ELSE [b EXCEPT !.display = @ + 1]

\* next(generator): from the start or from the last yield to the next yield,
\* to the return or to an exception
generator_next(self, g) ==
    IF g.state = "created" THEN next_batch(self, g)
    ELSE IF after_yield(self, g).state = "returned" THEN after_yield(self, g)
    ELSE next_batch(self, after_yield(self, g))

IteratorInit ==
    /\ pc = "new"
    /\ iterator' = EpochOrBatchIteratorWithProgress(args)
    /\ pc' = IF iterator'.raised THEN "raised" ELSE "built"
    /\ UNCHANGED <<acts, pred_acts, cfg, out, partial_trajectories, ret, drvVars>>

\* iter(it): the generator object is made, none of its code has run
Iter ==
    /\ pc = "built"
    /\ iterator' = [generator |-> NewGenerator] @@ iterator
    /\ pc' = "iterating"
    /\ UNCHANGED <<acts, pred_acts, cfg, out, partial_trajectories, ret, drvVars>>

\* the consumer's for loop takes the next item
IterNext ==
    /\ pc = "iterating"
    /\ iterator' = [iterator EXCEPT
                       !.generator = generator_next(iterator, iterator.generator)]
    /\ pc' = IF iterator'.generator.state = "suspended" THEN "iterating"
             ELSE iterator'.generator.state
    /\ UNCHANGED <<acts, pred_acts, cfg, out, partial_trajectories, ret, drvVars>>

InitIterator ==
    /\ acts = <<>>
    /\ pred_acts = <<>>
    /\ iterator = NoIterator
    /\ cfg = DefaultCfg
    /\ out = Failed("none")
    /\ pc = "new"
    /\ partial_trajectories = <<>>
    /\ ret = [op |-> "none"]
    /\ \E data_loader \in Loaders, n_epochs \in OptCounts, n_batches \in OptCounts,
          on_epoch_end \in OptCallbacks, on_batch_end \in OptCallbacks :
           args = [fn |-> "EpochOrBatchIteratorWithProgress",
                   data_loader |-> data_loader,
                   n_epochs |-> n_epochs,
                   n_batches |-> n_batches,
                   on_epoch_end |-> on_epoch_end,
                   on_batch_end |-> on_batch_end]
    /\ venv = [t |-> 0]
    /\ trajectories = <<>>
    /\ active = <<>>
    /\ num_demos = 0
    /\ tick = [n |-> 0]
    /\ stats = <<>>
    /\ result = [fn |-> "none"]
NextIterator == IteratorInit \/ Iter \/ IterNext
SpecIterator == InitIterator /\ [][NextIterator]_vars

-----------------------------------------------------------------------------
(* add_steps_and_auto_finish called on an accumulator in any state           *)
(* (rollout.py 102-165): its callers may have seeded the slots, or not.      *)

\* one call with the batch of a venv.step for the actions given
AddStepsAndAutoFinish ==
    \E d \in AllDones :
        LET st == venv_step(1, d, [i \in Slots |-> NoViolation])
            b == [acts |-> [i \in Slots |-> OkAct], obs |-> st.obs, rews |-> st.rews,
                  dones |-> st.dones, infos |-> st.infos]
            r == add_steps_and_auto_finish(partial_trajectories, b)
        IN /\ pc = "idle"
           /\ Stored(partial_trajectories) <= MaxBuf
           /\ partial_trajectories' = r.partial_trajectories
           /\ ret' = [op |-> "add_steps_and_auto_finish",
                      batch |-> b,
                      before |-> partial_trajectories,
                      raised |-> r.raised,
                      trajs |-> r.trajs]
           /\ UNCHANGED <<iterator, acts, pred_acts, cfg, pc, out, drvVars>>

NextAuto == AddStep \/ FinishTrajectory \/ AddStepsAndAutoFinish
SpecAuto == InitAcc /\ [][NextAuto]_vars

-----------------------------------------------------------------------------
(* generate_trajectories on an environment whose episodes all end: every     *)
(* episode of an active slot that is still running at the tick MaxTicks      *)
(* reports done in it. The loop is sequential code, so an iteration that can *)
(* begin does begin, and so does the return.                                 *)

\* one iteration of the loop on such an environment
FairTick ==
    /\ Tick
    /\ venv'.t = MaxTicks => \A i \in Slots : active[i] => tick'.dones_env[i]

\* the default infinite target with a single-condition predicate and any
\* actions, or a finite target with well-formed actions only
InitFair ==
    \/ \E f \in {make_min_episodes(1), make_min_episodes(2), make_min_timesteps(2)} :
           DriverStart("generate_trajectories", {OkAct, NanAct}, f, Infinity,
                       AllDones, {NoViolation})
    \/ \E f \in SampleUntils, total \in 1 .. MaxTarget :
           DriverStart("generate_trajectories", {OkAct}, f, total, AllDones,
                       {NoViolation})
NextFair == FairTick \/ Return
\* FairTick can be taken: the loop goes on, within the ticks modelled
CanTick == args.fn = "generate_trajectories" /\ Looping /\ venv.t < MaxTicks
\* weak fairness of FairTick, WF_vars(FairTick), with the enabling condition
\* of FairTick written out
Progress == []<>(~CanTick) \/ []<><<FairTick>>_vars
SpecFair == InitFair /\ [][NextFair]_vars /\ Progress /\ WF_vars(Return)

-----------------------------------------------------------------------------
(* Vocabulary of the properties, stated on the inputs *)

Done == pc = "done"
NumB == Cardinality(DOMAIN acts)
NumK == Cardinality(DOMAIN acts[0])
PosOf(h) == SubSeq(h, 1, cfg.traj_size_pos_ctrl_pts.value)

\* position-only mean squared distance between two vectors, times DistScale
PosDistance(g, h) == (SumSq(PosOf(g), PosOf(h), 1) * DistScale) \div Len(PosOf(g))

\* expert j of sample b nearly repeats an earlier expert
Duplicate(b, j) ==
    \E i \in Range(j) : PosDistance(acts[b][i], acts[b][j]) < Threshold * DistScale
NonDuplicates(b) == {i \in Range(NumK) : ~Duplicate(b, i)}

\* position-only distance of expert i to student j in sample b
D(b, i, j) == PosDistance(acts[b][i], pred_acts[b][j])

Injections(S, T) == {f \in [S -> T] : \A x, y \in S : x # y => f[x] # f[y]}

WeightOne == WScale
WeightBig == WScale - (WScale * EpsNum) \div EpsDen
WeightSmall(n) == ((WScale * EpsNum) \div EpsDen) \div (n - 1)

-----------------------------------------------------------------------------
(* C1: for K > 1 the Exact matrix is a valid bipartite matching: each         *)
(* non-duplicate expert row has exactly one column of weight 1, no two such  *)
(* rows share a column, every other entry (all of every duplicate row) is 0, *)
(* and the matrix sum is the number of non-duplicate rows.                   *)
ExactIsMatching ==
    (Done /\ NumK > 1) =>
        /\ out.status = "ok"
        /\ \A b \in Range(NumB) :
            LET A == out.A_matrix[b] IN
            /\ \A i \in Range(NumK), j \in Range(NumK) : A[i][j] \in {0, WeightOne}
            /\ \A i \in NonDuplicates(b) :
                   Cardinality({j \in Range(NumK) : A[i][j] = WeightOne}) = 1
            /\ \A i \in Range(NumK) \ NonDuplicates(b) :
                   \A j \in Range(NumK) : A[i][j] = 0
            /\ \A j \in Range(NumK) :
                   Cardinality({i \in Range(NumK) : A[i][j] = WeightOne}) <= 1
            /\ SumOver([c \in Range(NumK) \X Range(NumK) |-> A[c[1]][c[2]]],
                       Range(NumK) \X Range(NumK))
                   = WeightOne * Cardinality(NonDuplicates(b))

\* a sample of three experts, one of them a duplicate in the middle, was matched
ExactIsMatchingWitness ==
    /\ Done /\ NumK = 3 /\ out.status = "ok"
    /\ NonDuplicates(0) = {0, 2}
    /\ \E j \in Range(NumK) : out.A_matrix[0][2][j] = WeightOne

(* C2: for K > 1 the pairs of weight 1 in the Exact matrix have the least     *)
(* total position distance among all injective assignments of the            *)
(* non-duplicate expert rows to student columns.                             *)
ExactIsOptimal ==
    (Done /\ NumK > 1) =>
        /\ out.status = "ok"
        /\ \A b \in Range(NumB) :
            LET A == out.A_matrix[b]
                S == NonDuplicates(b)
                chosen == {c \in Range(NumK) \X Range(NumK) : A[c[1]][c[2]] = WeightOne}
                total == SumOver([c \in chosen |-> D(b, c[1], c[2])], chosen)
            IN  \A f \in Injections(S, Range(NumK)) :
                    total <= SumOver([i \in S |-> D(b, i, f[i])], S)

\* expert 0 was matched to a student that is not its nearest one
ExactIsOptimalWitness ==
    /\ Done /\ NumK > 1 /\ out.status = "ok"
    /\ \E j, k \in Range(NumK) :
        /\ out.A_matrix[0][0][j] = WeightOne
        /\ D(0, 0, k) < D(0, 0, j)

(* C3: for K > 1 and every student column, RWTAc gives 1 - epsilon to a       *)
(* non-duplicate expert row of least position distance in that column,       *)
(* epsilon / (R - 1) to each other non-duplicate row (1 to the only row when *)
(* R = 1), 0 to duplicate rows; columns sum to 1 and the assertion holds.    *)
RWTAcColumns ==
    (Done /\ NumK > 1) =>
        /\ out.status = "ok"
        /\ \A b \in Range(NumB) :
            LET A == out.A_RWTAc_matrix[b]
                S == NonDuplicates(b)
                R == Cardinality(S)
            IN  \A j \in Range(NumK) :
                /\ \E r \in S :
                    /\ \A i \in S : D(b, r, j) <= D(b, i, j)
                    /\ A[r][j] = IF R = 1 THEN WeightOne ELSE WeightBig
                    /\ \A i \in S \ {r} : A[i][j] = WeightSmall(R)
                /\ \A i \in Range(NumK) \ S : A[i][j] = 0
                /\ SumOver([i \in Range(NumK) |-> A[i][j]], Range(NumK)) = WeightOne

\* three experts of which one is a duplicate: epsilon is spread over R - 1 = 1 row
RWTAcColumnsWitness ==
    /\ Done /\ NumK = 3 /\ out.status = "ok"
    /\ Cardinality(NonDuplicates(0)) = 2
    /\ \E i \in NonDuplicates(0), j \in Range(NumK) :
           out.A_RWTAc_matrix[0][i][j] = WeightSmall(2)

(* C4: for K > 1 and every non-duplicate expert row, RWTAr gives 1 - epsilon  *)
(* to a student column of least position distance in that row and            *)
(* epsilon / (C - 1) to each other column; duplicate rows are all zero;      *)
(* non-duplicate rows sum to 1 and the assertion holds.                      *)
RWTArRows ==
    (Done /\ NumK > 1) =>
        /\ out.status = "ok"
        /\ \A b \in Range(NumB) :
            LET A == out.A_RWTAr_matrix[b]
                S == NonDuplicates(b)
            IN  \A i \in Range(NumK) :
                IF i \in S
                THEN /\ \E c \in Range(NumK) :
                          /\ \A j \in Range(NumK) : D(b, i, c) <= D(b, i, j)
                          /\ A[i][c] = WeightBig
                          /\ \A j \in Range(NumK) \ {c} : A[i][j] = WeightSmall(NumK)
                     /\ SumOver(A[i], Range(NumK)) = WeightOne
                ELSE \A j \in Range(NumK) : A[i][j] = 0

\* a duplicate row was zeroed next to a non-duplicate row carrying 1 - epsilon
RWTArRowsWitness ==
    /\ Done /\ NumK = 3 /\ out.status = "ok"
    /\ Duplicate(0, 1)
    /\ \A j \in Range(NumK) : out.A_RWTAr_matrix[0][1][j] = 0
    /\ \E j \in Range(NumK) : out.A_RWTAr_matrix[0][2][j] = WeightBig

-----------------------------------------------------------------------------
(* Vocabulary of the loss properties *)

\* _calculate_loss got as far as the duplicate mask (it returned, or failed later)
MaskComputed == Done /\ out.status \in {"ok", "UnboundLocalError"}

Variants == {"Hung", "RWTAr", "RWTAc"}
Families == {"pos", "yaw", "time"}
MatrixOf(v) == IF v = "Hung" THEN out.A_matrix
               ELSE IF v = "RWTAr" THEN out.A_RWTAr_matrix
               ELSE out.A_RWTAc_matrix

YawOf(h) == SubSeq(h, cfg.traj_size_pos_ctrl_pts.value + 1,
                   cfg.traj_size_pos_ctrl_pts.value + cfg.traj_size_yaw_ctrl_pts.value)
TimeOf(h) == SubSeq(h, Len(h), Len(h))
MeanSquare(x, y) == (SumSq(x, y, 1) * DistScale) \div Len(x)

\* distance of family f between expert i and student j of sample b
FamilyDistance(f, b, i, j) ==
    IF f = "pos" THEN MeanSquare(PosOf(acts[b][i]), PosOf(pred_acts[b][j]))
    ELSE IF f = "yaw"
    THEN MeanSquare([k \in 1 .. Len(YawOf(acts[b][i])) |->
                        YawScaling * YawOf(acts[b][i])[k]],
                    YawOf(pred_acts[b][j]))
    ELSE MeanSquare(TimeOf(acts[b][i]), TimeOf(pred_acts[b][j]))

AllCells == {<<b, i, j>> : b \in Range(NumB), i \in Range(NumK), j \in Range(NumK)}
\* the batch sum of A[i,j] * D[i,j] for variant v and family f
WeightedSum(v, f) ==
    SumOver([c \in AllCells |->
                MatrixOf(v)[c[1]][c[2]][c[3]] * FamilyDistance(f, c[1], c[2], c[3])],
            AllCells)
NonZeroCount(v) ==
    Cardinality({c \in AllCells : MatrixOf(v)[c[1]][c[2]][c[3]] # 0})

(* C5: the duplicate mask is true at expert j exactly when some earlier        *)
(* expert i < j, flagged or not, has position-only mean squared distance to   *)
(* j strictly below the threshold; yaw and duration play no part.             *)
DuplicateMaskIff ==
    MaskComputed =>
        \A b \in Range(NumB), j \in Range(NumK) :
            out.is_repeated[b][j] <=>
                \E i \in Range(j) :
                    MeanSquare(PosOf(acts[b][i]), PosOf(acts[b][j]))
                        < Threshold * DistScale

\* expert 2 repeats expert 1 only, expert 1 is itself a duplicate of expert 0, and
\* experts 1 and 2 differ in yaw; expert 0 and 2 are exactly at the threshold
DuplicateMaskIffWitness ==
    /\ MaskComputed /\ NumK = 3
    /\ out.is_repeated[0] = [j \in Range(3) |-> j # 0]
    /\ MeanSquare(PosOf(acts[0][0]), PosOf(acts[0][2])) = Threshold * DistScale
    /\ YawOf(acts[0][1]) # YawOf(acts[0][2])

(* C6: with K = 1, slice sizes given and type_loss one of the three variants, *)
(* _calculate_loss completes and the three assignment matrices are defined    *)
(* and equal to the 1 x 1 matrix of weight 1.                                 *)
SingleHypothesisCompletes ==
    (Done /\ NumK = 1 /\ ~SizeTypeError(cfg) /\ cfg.type_loss \in Variants) =>
        /\ out.status = "ok"
        /\ out.unbound = {}
        /\ \A v \in Variants :
               MatrixOf(v) = [b \in Range(NumB) |-> [i \in {0} |-> [j \in {0} |-> WeightOne]]]

(* C7 as claimed: for the configured variant and each distance family the     *)
(* component loss is the batch sum of A * D divided by the number of non-zero *)
(* entries of that same matrix A.                                             *)
ComponentLossOwnCount ==
    (Done /\ out.status = "ok") =>
        \A f \in Families :
            RatEq(out.losses[cfg.type_loss][f],
                  <<WeightedSum(cfg.type_loss, f), NonZeroCount(cfg.type_loss)>>)

(* C7 as amended: whenever _calculate_loss returns, for the configured        *)
(* variant and each distance family the component loss is the batch sum of    *)
(* A * D divided by the number of non-zero entries of the Exact matrix, which *)
(* is the number of non-duplicate experts of the batch.                       *)
ComponentLossExactCount ==
    (Done /\ out.status = "ok") =>
        /\ NonZeroCount("Hung")
               = SumOver([b \in Range(NumB) |-> Cardinality(NonDuplicates(b))],
                         Range(NumB))
        /\ \A f \in Families :
            RatEq(out.losses[cfg.type_loss][f],
                  <<WeightedSum(cfg.type_loss, f), NonZeroCount("Hung")>>)

\* a relaxed variant is configured, its matrix has more non-zero entries than the
\* Exact one, and a component loss is not zero
ComponentLossExactCountWitness ==
    /\ Done /\ out.status = "ok" /\ NumB = 2
    /\ cfg.type_loss = "RWTAc"
    /\ NonZeroCount("RWTAc") > NonZeroCount("Hung")
    /\ Cardinality(NonDuplicates(0)) # Cardinality(NonDuplicates(1))
    /\ \A f \in Families : out.losses["RWTAc"][f][1] > 0

(* C8: the returned loss is the configured variant's time-component loss,     *)
(* plus its position-component loss unless make_yaw_NN, plus its              *)
(* yaw-component loss unless use_closed_form_yaw_student.                     *)
LossIsSumOfComponents ==
    (Done /\ out.status = "ok") =>
        RatEq(out.loss,
              <<WeightedSum(cfg.type_loss, "time")
                  + (IF cfg.make_yaw_NN THEN 0 ELSE WeightedSum(cfg.type_loss, "pos"))
                  + (IF cfg.use_closed_form_yaw_student THEN 0
                     ELSE WeightedSum(cfg.type_loss, "yaw")),
                NonZeroCount("Hung")>>)

\* a relaxed variant with the position component left out and the yaw component
\* kept, where the three components differ
LossIsSumOfComponentsWitness ==
    /\ Done /\ out.status = "ok"
    /\ cfg.type_loss = "RWTAr" /\ cfg.make_yaw_NN /\ ~cfg.use_closed_form_yaw_student
    /\ WeightedSum("RWTAr", "pos") > WeightedSum("RWTAr", "yaw")
    /\ WeightedSum("RWTAr", "yaw") > WeightedSum("RWTAr", "time")
    /\ WeightedSum("RWTAr", "time") > 0
    /\ ~RatEq(out.loss, out.losses["Hung"].total)

(* C9: when the expert and student tensors disagree in K, or the position and *)
(* yaw slice sizes do not add up to the vector length, _calculate_loss fails  *)
(* and computes no loss; a student set with more hypotheses than the expert   *)
(* set is rejected, not truncated.                                            *)
ShapeMismatchRejected ==
    (/\ Done
     /\ \/ Cardinality(DOMAIN pred_acts[0]) # NumK
        \/ \E b \in Range(NumB), i \in Range(NumK) :
               cfg.traj_size_pos_ctrl_pts.value + cfg.traj_size_yaw_ctrl_pts.value + 1
                   # Len(acts[b][i]))
        => /\ out.status # "ok"
           /\ out.loss = NoValue

(* C10 as claimed: add_step on a fresh key with a record holding anything      *)
(* other than an observation fails and creates no buffer for the key.         *)
AddStepRejectsUnseeded ==
    (ret.op = "add_step" /\ ret.fresh /\ DOMAIN ret.step_dict # {"obs"}) =>
        /\ ret.raised
        /\ ret.key \notin DOMAIN partial_trajectories

(* C10 as amended: add_step on a fresh key never fails, whatever the record   *)
(* holds: it creates the buffer of that key, holding exactly that record.     *)
AddStepAlwaysAppends ==
    (ret.op = "add_step" /\ ret.fresh) =>
        /\ ~ret.raised
        /\ ret.key \in DOMAIN partial_trajectories
        /\ partial_trajectories[ret.key] = <<ret.step_dict>>

\* a fresh key was given a record with actions and rewards and no observation
AddStepAlwaysAppendsWitness ==
    /\ ret.op = "add_step" /\ ret.fresh
    /\ DOMAIN ret.step_dict = {"acts", "rews"}
    /\ partial_trajectories[ret.key] = <<ret.step_dict>>

-----------------------------------------------------------------------------
(* Vocabulary of the accumulator properties, stated on the call's arguments *)

Finished == ret.op = "finish_trajectory"
\* how many of the buffered records hold a field
NumOf(field) ==
    Cardinality({i \in 1 .. Len(ret.part_dicts) : field \in DOMAIN ret.part_dicts[i]})
\* a seed observation followed by n >= 1 full step records
SeedThenSteps ==
    /\ Len(ret.part_dicts) >= 2
    /\ DOMAIN ret.part_dicts[1] = {"obs"}
    /\ \A i \in 2 .. Len(ret.part_dicts) :
           DOMAIN ret.part_dicts[i] = {"obs", "acts", "rews", "infos"}

(* C11: finishing a buffer made of a seed observation and n >= 1 full steps  *)
(* removes the key and returns a trajectory with the n + 1 observations, the *)
(* n actions and the n rewards in insertion order and the given terminal     *)
(* flag.                                                                     *)
FinishAssembles ==
    (Finished /\ ret.seeded /\ SeedThenSteps) =>
        LET n == Len(ret.part_dicts) - 1
        IN /\ ~ret.raised
           /\ ret.key \notin DOMAIN partial_trajectories
           /\ ret.traj.obs = [i \in 1 .. n + 1 |-> ret.part_dicts[i].obs]
           /\ ret.traj.acts = [i \in 1 .. n |-> ret.part_dicts[i + 1].acts]
           /\ ret.traj.rews = [i \in 1 .. n |-> ret.part_dicts[i + 1].rews]
           /\ ret.traj.terminal = ret.terminal
           /\ Len(ret.traj.obs) = Len(ret.traj.acts) + 1
           /\ Len(ret.traj.obs) = Len(ret.traj.rews) + 1

\* a seed and two full steps with different actions were finished
FinishAssemblesWitness ==
    /\ Finished /\ ret.seeded /\ SeedThenSteps
    /\ Len(ret.part_dicts) = 3
    /\ ret.part_dicts[2].acts # ret.part_dicts[3].acts
    /\ ret.traj.acts = <<ret.part_dicts[2].acts, ret.part_dicts[3].acts>>
    /\ ret.terminal

(* C12: finish_trajectory raises and returns no trajectory for a key that    *)
(* was never seeded or whose buffer is empty, for a seed-only buffer, and    *)
(* whenever the buffered records do not hold as many actions as rewards and  *)
(* one observation more.                                                     *)
FinishRejects ==
    (/\ Finished
     /\ \/ ~ret.seeded
        \/ ret.part_dicts = <<>>
        \/ NumOf("acts") = 0
        \/ NumOf("acts") # NumOf("rews")
        \/ NumOf("acts") # NumOf("obs") - 1)
        => /\ ret.raised
           /\ ret.traj = NoTraj

\* a buffer of a seed and a step without observation was finished, and refused
FinishRejectsWitness ==
    /\ Finished /\ ret.seeded
    /\ Len(ret.part_dicts) = 2
    /\ NumOf("obs") = 1 /\ NumOf("acts") = 1 /\ NumOf("rews") = 1
    /\ ret.raised

-----------------------------------------------------------------------------
(* Vocabulary of the driver properties, stated on the loop's observable data *)

Rolling == args.fn = "generate_trajectories"
Ticked == tick.n > 0
\* the slot a trajectory was collected from: its observations name it
SlotOf(traj) == traj.obs[1].slot
\* the trajectories collected from slot i among the elements lo .. hi of a list
FromSlot(trajs, lo, hi, i) == {k \in lo .. hi : SlotOf(trajs[k]) = i}
\* the termination predicate holds of a list of trajectories: every bound given
\* is met, episodes by the number of trajectories, timesteps by the number of
\* actions over all of them
StepsIn(trajs) ==
    Cardinality({<<k, n>> \in (1 .. Len(trajs)) \X (1 .. MaxTicks + 1) :
                     n <= Len(trajs[k].acts)})
BoundMet(c, trajs) ==
    \/ c.fn = "min_episodes" /\ Len(trajs) >= c.n
    \/ c.fn = "min_timesteps" /\ StepsIn(trajs) >= c.n
PredicateMet(f, trajs) ==
    IF f.fn = "sample_until"
    THEN \A k \in 1 .. Len(f.conditions) : BoundMet(f.conditions[k], trajs)
    ELSE BoundMet(f, trajs)
\* the slot's buffer holds its seed observation and nothing else
SeedOnly(i) ==
    /\ Len(partial_trajectories[i]) = 1
    /\ DOMAIN partial_trajectories[i][1] = {"obs"}
\* occurrences of an element in a list
Occurrences(x, e) == Cardinality({k \in 1 .. Len(x) : x[k] = e})

(* C13: in generate_trajectories a slot that is inactive stays inactive, and *)
(* no trajectory is finalized or collected for it in any later tick: its     *)
(* buffer is not taken and nothing of that slot joins the collected list,    *)
(* whatever done flags the environment reports.                              *)
InactiveStaysOut ==
    [][(Rolling /\ pc = "loop") =>
           \A i \in Slots :
               ~active[i] =>
                   /\ ~active'[i]
                   /\ FromSlot(trajectories', Len(trajectories) + 1,
                               Len(trajectories'), i) = {}
                   /\ tick'.n > tick.n =>
                          FromSlot(tick'.new_trajs, 1, Len(tick'.new_trajs), i) = {}
                   /\ Len(partial_trajectories'[i]) >= Len(partial_trajectories[i])
      ]_vars

\* the environment reported done for a slot that was inactive, and the tick
\* collected nothing from that slot
InactiveStaysOutWitness ==
    /\ Rolling /\ Ticked
    /\ \E i \in Slots :
           /\ ~tick.active[i]
           /\ tick.dones_env[i]
           /\ Len(partial_trajectories[i]) >= 2
           /\ FromSlot(tick.new_trajs, 1, Len(tick.new_trajs), i) = {}

(* C14: after a tick of generate_trajectories, the slots that went from      *)
(* active to inactive are exactly the active slots whose episode ended in    *)
(* that tick if the termination predicate holds of the collected             *)
(* trajectories, and none if it does not (or if there is no predicate).      *)
DeactivatesJustFinished ==
    (Rolling /\ Ticked) =>
        LET gone == {i \in Slots : tick.active[i] /\ ~active[i]}
        IN IF args.sample_until.fn # "None"
              /\ PredicateMet(args.sample_until, trajectories)
           THEN gone = {i \in Slots : tick.active[i] /\ tick.dones_env[i]}
           ELSE gone = {}

\* the predicate held in a tick in which one active slot finished and another
\* active slot, in the middle of its episode, stayed active
DeactivatesJustFinishedWitness ==
    /\ Rolling /\ Ticked
    /\ args.sample_until.fn # "None"
    /\ PredicateMet(args.sample_until, trajectories)
    /\ \E i, j \in Slots :
           /\ tick.active[i] /\ tick.dones_env[i] /\ ~active[i]
           /\ tick.active[j] /\ ~tick.dones_env[j] /\ active[j]

(* C15: in the tick of generate_trajectories in which the demo counter       *)
(* reaches a finite target, forceDone is signalled before the step; if the   *)
(* environment then reports done for every slot, every slot that was active  *)
(* has its episode finalized and collected in that tick and is left with its *)
(* seed observation alone, also at return.                                   *)
ForceDoneFlushes ==
    (Rolling /\ Ticked /\ tick.num_demos < args.total_demos
             /\ num_demos >= args.total_demos) =>
        /\ \E k \in 1 .. Len(tick.calls) :
               /\ tick.calls[k] = [call |-> "env_method", name |-> "forceDone"]
               /\ \E m \in k + 1 .. Len(tick.calls) : tick.calls[m].call = "step"
               /\ \A m \in 1 .. k : tick.calls[m].call # "step"
        /\ (\A i \in Slots : tick.dones_env[i]) =>
               \A i \in Slots :
                   tick.active[i] =>
                       /\ Cardinality(FromSlot(tick.new_trajs, 1,
                                               Len(tick.new_trajs), i)) = 1
                       /\ \E k \in 1 .. Len(trajectories) :
                              /\ trajectories[k] \in
                                     {tick.new_trajs[m] : m \in 1 .. Len(tick.new_trajs)}
                              /\ SlotOf(trajectories[k]) = i
                       /\ SeedOnly(i)

\* the target was reached in a tick that found a slot in the middle of an
\* episode, and the driver has returned
ForceDoneFlushesWitness ==
    /\ Rolling /\ Ticked /\ pc = "returned"
    /\ tick.num_demos < args.total_demos /\ num_demos >= args.total_demos
    /\ \A i \in Slots : tick.dones_env[i]
    /\ \E k \in 1 .. Len(tick.new_trajs) : Len(tick.new_trajs[k].acts) >= 2
    /\ \A i \in Slots : tick.active[i] => SeedOnly(i)

(* C17: the list generate_trajectories returns is a permutation of the       *)
(* trajectories finalized during the run: the same length, and every         *)
(* trajectory occurs in it as often as it was collected, unchanged.          *)
ReturnedIsPermutation ==
    (Rolling /\ pc = "returned") =>
        /\ Len(result.trajectories) = Len(trajectories)
        /\ \A k \in 1 .. Len(trajectories) :
               Occurrences(result.trajectories, trajectories[k])
                   = Occurrences(trajectories, trajectories[k])
        /\ \A k \in 1 .. Len(result.trajectories) :
               Occurrences(trajectories, result.trajectories[k]) >= 1

\* three or more trajectories were returned in another order than collected
ReturnedIsPermutationWitness ==
    /\ Rolling /\ pc = "returned"
    /\ Len(trajectories) >= 3
    /\ result.trajectories # trajectories
    /\ result.trajectories[1] # trajectories[Len(trajectories)]

(* C18 as claimed: when generate_trajectories was given a termination        *)
(* predicate and returns, the predicate holds of the returned list (stated   *)
(* here for the runs in which the environment reported done for every slot   *)
(* whenever forceDone was signalled).                                        *)
ReturnSatisfiesSampleUntil ==
    (/\ Rolling /\ pc = "returned" /\ args.sample_until.fn # "None"
     /\ (Ticked /\ num_demos >= args.total_demos) =>
            \A i \in Slots : tick.dones_env[i])
        => PredicateMet(args.sample_until, result.trajectories)

\* the slots whose action of the last tick holds no NaN entry
NaNFree == {i \in Slots : \A k \in 1 .. Len(tick.acts[i]) : tick.acts[i][k].k # "nan"}

(* C16 as claimed: in both drivers every tick adds to the demo counter       *)
(* exactly the number of slots, over all of them, whose action holds no NaN; *)
(* the loop is not aborted and the environment is stepped.                   *)
DemoCounterSkipsNaN ==
    (args.fn \in Drivers /\ Ticked) =>
        /\ num_demos - tick.num_demos = Cardinality(NaNFree)
        /\ pc # "raised"
        /\ \E k \in 1 .. Len(tick.calls) : tick.calls[k].call = "step"

Benchmarking == args.fn = "generate_trajectories_for_benchmark"

(* C19: the benchmark driver with a finite target never changes the active   *)
(* vector, begins an iteration only below the target and returns only at or  *)
(* above it, with num_demos in [total_demos, total_demos + N - 1]; and it    *)
(* returns unless some iteration yields no well-formed action.               *)
BenchStopsAtTarget ==
    /\ [](Benchmarking =>
              /\ \A i \in Slots : active[i]
              /\ Ticked => tick.num_demos < args.total_demos
              /\ pc = "returned" =>
                     /\ result.num_demos = num_demos
                     /\ num_demos >= args.total_demos
                     /\ num_demos <= args.total_demos + NumEnvs - 1)
    /\ <>(Benchmarking =>
              \/ pc = "returned"
              \/ Ticked /\ num_demos = tick.num_demos)

\* the driver returned with the largest overshoot, after an iteration that
\* left the counter one short of the target
BenchStopsAtTargetWitness ==
    /\ Benchmarking /\ pc = "returned"
    /\ tick.n >= 2
    /\ tick.num_demos = args.total_demos - 1
    /\ result.num_demos = args.total_demos + NumEnvs - 1

\* the index before the first transition of the k-th trajectory
RECURSIVE Offset(_)
Offset(k) == IF k = 1 THEN 0 ELSE Offset(k - 1) + Len(trajectories[k - 1].acts)
TotalSteps == Offset(Len(trajectories) + 1)
\* the flattened fields are the trajectories' transitions, one segment each
FlattenedRight ==
    /\ ~result.raised
    /\ Len(result.obs) = TotalSteps
    /\ Len(result.next_obs) = TotalSteps
    /\ Len(result.acts) = TotalSteps
    /\ Len(result.dones) = TotalSteps
    /\ Len(result.infos) = TotalSteps
    /\ \A k \in 1 .. Len(trajectories) :
           \A n \in 1 .. Len(trajectories[k].acts) :
               /\ result.obs[Offset(k) + n] = trajectories[k].obs[n]
               /\ result.next_obs[Offset(k) + n] = trajectories[k].obs[n + 1]
               /\ result.dones[Offset(k) + n] =
                      (n = Len(trajectories[k].acts) /\ trajectories[k].terminal)

(* C20 as claimed: for any list of trajectories of at least one step each,   *)
(* flatten_trajectories returns fields of length sum(T_i), with obs[:-1] and *)
(* obs[1:] segment by segment and dones false except for the terminal flag   *)
(* at the end of each segment.                                               *)
FlattenAnyList ==
    pc = "flattened" => FlattenedRight

(* C20 as amended: the same, for any non-empty list of trajectories.         *)
FlattenNonEmptyList ==
    (pc = "flattened" /\ trajectories # <<>>) => FlattenedRight

\* a terminal trajectory of two steps was flattened in front of a
\* non-terminal one of one step
FlattenNonEmptyListWitness ==
    /\ pc = "flattened"
    /\ Len(trajectories) = 2
    /\ Len(trajectories[1].acts) = 2 /\ trajectories[1].terminal
    /\ Len(trajectories[2].acts) = 1 /\ ~trajectories[2].terminal
    /\ trajectories[1].obs # trajectories[2].obs
    /\ result.dones = <<FALSE, TRUE, FALSE>>

-----------------------------------------------------------------------------
(* Vocabulary of the predicate properties *)

Supplied(b) == ~b.is_none
\* timesteps of a list: one per observation after the first of each trajectory
ObsSteps(trajs) ==
    Cardinality({<<k, n>> \in (1 .. Len(trajs)) \X (1 .. MaxLen + 1) :
                     n <= Len(trajs[k].obs) - 1})
EveryBoundMet(trajs) ==
    /\ Supplied(args.min_timesteps) => ObsSteps(trajs) >= args.min_timesteps.value
    /\ Supplied(args.min_episodes) => Len(trajs) >= args.min_episodes.value

(* C21: make_sample_until raises when both min_timesteps and min_episodes    *)
(* are None and when a supplied bound is <= 0; in every other case it        *)
(* returns a predicate without raising.                                      *)
SampleUntilValidates ==
    (args.fn = "make_sample_until" /\ pc # "make") =>
        /\ result.raised <=>
               \/ ~Supplied(args.min_timesteps) /\ ~Supplied(args.min_episodes)
               \/ Supplied(args.min_timesteps) /\ args.min_timesteps.value <= 0
               \/ Supplied(args.min_episodes) /\ args.min_episodes.value <= 0
        /\ ~result.raised => result.fn = "sample_until"

\* a positive min_timesteps came with a min_episodes of 0 and the call raised
SampleUntilValidatesWitness ==
    /\ args.fn = "make_sample_until" /\ pc = "made"
    /\ Supplied(args.min_timesteps) /\ args.min_timesteps.value > 0
    /\ Supplied(args.min_episodes) /\ args.min_episodes.value = 0
    /\ result.raised

(* C22: the predicate of make_sample_until(min_timesteps, min_episodes) is   *)
(* true of a list exactly when every supplied bound is met, the timesteps    *)
(* being sum(len(obs) - 1) and the episodes the number of trajectories; once *)
(* true it stays true when trajectories are appended.                        *)
SampleUntilExactAndMonotone ==
    /\ []((args.fn = "make_sample_until" /\ pc = "called")
              => (ret.value <=> EveryBoundMet(trajectories)))
    /\ [][(pc = "made" /\ pc' = "called" /\ ret.op = "sample_until" /\ ret.value)
              => ret'.value]_vars

\* both bounds were given; the predicate was false on a list that met the
\* episodes only, and is true after one more trajectory
SampleUntilExactAndMonotoneWitness ==
    /\ args.fn = "make_sample_until"
    /\ pc = "called" /\ ret.value
    /\ Supplied(args.min_timesteps) /\ Supplied(args.min_episodes)
    /\ Len(trajectories) > args.min_episodes.value
    /\ ObsSteps(SubSeq(trajectories, 1, Len(trajectories) - 1))
           < args.min_timesteps.value

-----------------------------------------------------------------------------
(* Vocabulary of the properties of the callers *)

Transitioned == args.fn = "generate_trajectories" /\ pc = "transitions"
\* every field of the returned transitions has n entries, or at least n
EveryFieldHas(n) ==
    /\ ~result.raised
    /\ \A k \in TransitionWithRewKeys : Len(result[k]) = n
EveryFieldHasAtLeast(n) ==
    /\ ~result.raised
    /\ \A k \in TransitionWithRewKeys : Len(result[k]) >= n

(* C23 as claimed: generate_transitions returns transitions whose every      *)
(* field has exactly n_timesteps entries when truncate is true and at least  *)
(* n_timesteps entries when it is false (stated here for the runs in which   *)
(* the environment reported done for every slot whenever forceDone was       *)
(* signalled).                                                               *)
TransitionsCount ==
    (/\ Transitioned
     /\ (Ticked /\ num_demos >= args.total_demos) =>
            \A i \in Slots : tick.dones_env[i])
        => IF args.truncate THEN EveryFieldHas(args.n_timesteps)
           ELSE EveryFieldHasAtLeast(args.n_timesteps)

\* mean_return was left, by a return or by an exception
MeanReturnLeft ==
    /\ args.fn = "generate_trajectories" /\ args.caller = "mean_return"
    /\ result.fn = "mean_return"
\* the sum of the rewards of all collected trajectories
RECURSIVE RewardsUpTo(_)
RewardsUpTo(k) ==
    IF k = 0 THEN 0 ELSE RewardsUpTo(k - 1) + SumOf(trajectories[k].rews)

(* C24 as claimed: whenever generate_trajectories returns a non-empty list,  *)
(* mean_return returns the mean over the trajectories of their summed        *)
(* rewards, the return_mean of rollout_stats.                                *)
MeanReturnIsReturnMean ==
    (MeanReturnLeft /\ trajectories # <<>>) =>
        /\ ~result.raised
        /\ RatEq(result.value, Rat(RewardsUpTo(Len(trajectories)), Len(trajectories)))

-----------------------------------------------------------------------------
(* Vocabulary of the iterator properties, stated on what the consumer and    *)
(* the callbacks have seen                                                   *)

Events == iterator.generator.events
IsYield(e) == e.ev = "yield"
IsBatchEnd(e) == e.ev = "on_batch_end"
IsEpochEnd(e) == e.ev = "on_epoch_end"
Yielded == SelectSeq(Events, IsYield)
LoaderLen == Len(args.data_loader)
\* the arguments of an iteration: exactly one of n_epochs and n_batches, of
\* at least 1, and a loader whose pass gives at least one batch, every batch
\* of at least one sample
IterableArgs ==
    /\ args.fn = "EpochOrBatchIteratorWithProgress"
    /\ args.n_epochs.is_none # args.n_batches.is_none
    /\ args.n_epochs.is_none => args.n_batches.value >= 1
    /\ args.n_batches.is_none => args.n_epochs.value >= 1
    /\ LoaderLen >= 1
    /\ \A k \in 1 .. LoaderLen : args.data_loader[k] > 0
\* the iteration of such arguments is over, by a return or by an exception
IterationOver == IterableArgs /\ pc \in {"returned", "raised"}
\* the sizes of the first k yielded batches, summed
RECURSIVE SizesUpTo(_)
SizesUpTo(k) == IF k = 0 THEN 0 ELSE SizesUpTo(k - 1) + Yielded[k].batch_size
\* exactly one of n_epochs and n_batches is required
RequiresOneCount ==
    (args.fn = "EpochOrBatchIteratorWithProgress" /\ pc # "new") =>
        (iterator.raised <=> (args.n_epochs.is_none <=> args.n_batches.is_none))
\* the iteration ends by a return, and the yielded batches are the loader's,
\* pass after pass, n_batches of them in batch mode and n_epochs passes of
\* them in epoch mode
YieldsRightBatches ==
    IterationOver =>
        /\ pc = "returned"
        /\ Len(Yielded) = IF args.n_epochs.is_none THEN args.n_batches.value
                          ELSE args.n_epochs.value * LoaderLen
        /\ \A k \in 1 .. Len(Yielded) :
               /\ Yielded[k].batch = ((k - 1) % LoaderLen) + 1
               /\ Yielded[k].batch_size = args.data_loader[Yielded[k].batch]
\* on_batch_end follows every yielded batch, and is called then only
BatchEndAfterEveryYield ==
    (IterationOver /\ ~args.on_batch_end.is_none) =>
        /\ \A p \in 1 .. Len(Events) :
               IsYield(Events[p]) => p < Len(Events) /\ IsBatchEnd(Events[p + 1])
        /\ Len(SelectSeq(Events, IsBatchEnd)) = Len(Yielded)
\* batch_num counts the yielded batches from 1, samples_so_far sums their sizes
StatsRunning ==
    (args.fn = "EpochOrBatchIteratorWithProgress" /\ pc \in {"iterating", "returned"}) =>
        \A k \in 1 .. Len(Yielded) :
            /\ Yielded[k].stats.batch_num = k
            /\ Yielded[k].stats.samples_so_far = SizesUpTo(k)
\* on_epoch_end is called only right after the on_batch_end, or the yield, of
\* the loader's last batch
EpochEndOnlyAfterLastBatch ==
    (IterationOver /\ ~args.on_epoch_end.is_none) =>
        \A p \in 1 .. Len(Events) :
            IsEpochEnd(Events[p]) =>
                \E q \in 1 .. p - 1 :
                    /\ IsYield(Events[q]) /\ Events[q].batch = LoaderLen
                    /\ \A r \in q + 1 .. p - 1 : IsBatchEnd(Events[r])
EpochEnds == Len(SelectSeq(Events, IsEpochEnd))

(* C25: the iterator requires exactly one of n_epochs and n_batches          *)
(* (ValueError otherwise); an iteration over a loader that gives data, with  *)
(* a count of at least 1, returns after it yielded n_batches batches,        *)
(* restarting the loader as needed, or n_epochs full passes of the loader;   *)
(* on_batch_end is called once after every yielded batch and on_epoch_end    *)
(* once after every completed pass, "at the end of every epoch" in the words *)
(* of the constructor's docstring: once for every pass of which the last     *)
(* batch was yielded and handled; batch_num counts from 1 and samples_so_far *)
(* is the running sum of the batch sizes.                                    *)
IteratorContract ==
    /\ RequiresOneCount
    /\ YieldsRightBatches
    /\ BatchEndAfterEveryYield
    /\ StatsRunning
    /\ EpochEndOnlyAfterLastBatch
    /\ (IterationOver /\ ~args.on_epoch_end.is_none) =>
           EpochEnds = Len(Yielded) \div LoaderLen

-----------------------------------------------------------------------------
(* Further properties of the duplicate mask and of the divisor *)

Survivors(b) == {i \in Range(NumK) : ~out.is_repeated[b][i]}
SamePositions(b) == \A i \in Range(NumK) : PosOf(acts[b][i]) = PosOf(acts[b][0])

(* C26: for K >= 1 expert 0 is never flagged duplicate, so every sample has  *)
(* at least one non-duplicate expert; when all K experts of a sample have    *)
(* the same position components, expert 0 is the only one not flagged.       *)
FirstExpertSurvives ==
    MaskComputed =>
        \A b \in Range(NumB) :
            /\ ~out.is_repeated[b][0]
            /\ Cardinality(Survivors(b)) >= 1
            /\ SamePositions(b) => Survivors(b) = {0}

\* three experts of one position that differ in yaw and in time: all but the
\* first are flagged
FirstExpertSurvivesWitness ==
    /\ MaskComputed /\ NumK = 3
    /\ SamePositions(0)
    /\ acts[0][0] # acts[0][1] /\ acts[0][1] # acts[0][2] /\ acts[0][0] # acts[0][2]
    /\ Survivors(0) = {0}

\* the non-duplicate experts of the batch
NonDuplicateCount ==
    SumOver([b \in Range(NumB) |-> Cardinality(NonDuplicates(b))], Range(NumB))

(* C27: for K > 1 the divisor of every component loss of every variant       *)
(* (Exact, RWTAr, RWTAc) is the number of non-duplicate experts summed over  *)
(* the batch, whichever variant is configured.                               *)
DivisorIsNonDuplicateCount ==
    (Done /\ out.status = "ok" /\ NumK > 1) =>
        /\ out.num_nonzero_A = NonDuplicateCount
        /\ \A v \in Variants, f \in Families :
               out.losses[v][f][2] = NonDuplicateCount

\* a batch of two samples, one of them with a duplicate: three experts count,
\* for a relaxed variant whose matrix has more non-zero entries
DivisorIsNonDuplicateCountWitness ==
    /\ Done /\ out.status = "ok" /\ NumK = 2 /\ NumB = 2
    /\ cfg.type_loss = "RWTAr"
    /\ NonDuplicateCount = 3
    /\ NonZeroCount("RWTAr") > 3
    /\ out.losses["RWTAr"]["pos"][2] = 3
    /\ out.losses["RWTAr"]["pos"][1] > 0

\* the k-th surviving expert of sample b, counted from 0
Survivor(b, k) ==
    CHOOSE i \in Survivors(b) : Cardinality({h \in Survivors(b) : h < i}) = k
\* the survivors of sample b as an expert tensor of one sample
SurvivorTensor(b) ==
    [s \in {0} |-> [k \in Range(Cardinality(Survivors(b))) |-> acts[b][Survivor(b, k)]]]

(* C28: duplicate detection is idempotent: no two experts that survived as   *)
(* non-duplicates are within the position threshold of each other, so the    *)
(* detection rule applied to the survivors flags none of them.               *)
DetectionIdempotent ==
    MaskComputed =>
        \A b \in Range(NumB) :
            /\ \A i, j \in Survivors(b) :
                   i # j => MeanSquare(PosOf(acts[b][i]), PosOf(acts[b][j]))
                                >= Threshold * DistScale
            /\ \A k \in Range(Cardinality(Survivors(b))) :
                   ~is_repeated(SurvivorTensor(b), cfg)[0][k]

\* experts 0 and 2 survived and expert 1, close to expert 0 and not to expert
\* 2, was flagged
DetectionIdempotentWitness ==
    /\ MaskComputed /\ NumK = 3
    /\ Survivors(0) = {0, 2}
    /\ MeanSquare(PosOf(acts[0][1]), PosOf(acts[0][2])) >= Threshold * DistScale
    /\ is_repeated(SurvivorTensor(0), cfg)[0] = [k \in Range(2) |-> FALSE]

-----------------------------------------------------------------------------
(* Further properties of generate_trajectories *)

FullStep == {"acts", "rews", "obs", "infos"}
\* slot i has a buffer: a seed observation, then full step records
WellSeeded(pt, i) ==
    /\ i \in DOMAIN pt
    /\ Len(pt[i]) >= 1
    /\ DOMAIN pt[i][1] = {"obs"}
    /\ \A n \in 2 .. Len(pt[i]) : DOMAIN pt[i][n] = FullStep

(* C29: at the start of every tick of generate_trajectories every slot has   *)
(* a buffer whose first record holds an observation only and whose other     *)
(* records are full steps, and the seeding assertions never fail; over a     *)
(* tick a buffer grows by one record, or it is finalized, its trajectory     *)
(* collected, and seeded again with the slot's fresh observation.            *)
BuffersStaySeeded ==
    /\ [](Rolling =>
              /\ pc # "raised"
              /\ \A i \in Slots : WellSeeded(partial_trajectories, i))
    /\ [][(Rolling /\ tick'.n > tick.n) =>
              \A i \in Slots :
                  IF tick'.dones[i]
                  THEN /\ partial_trajectories'[i] = <<[obs |-> reset_ob(i, tick'.n)]>>
                       /\ \E k \in 1 .. Len(tick'.new_trajs) :
                              /\ SlotOf(tick'.new_trajs[k]) = i
                              /\ Len(tick'.new_trajs[k].obs)
                                     = Len(partial_trajectories[i]) + 1
                  ELSE /\ Len(partial_trajectories'[i])
                              = Len(partial_trajectories[i]) + 1
                       /\ SubSeq(partial_trajectories'[i], 1,
                                 Len(partial_trajectories[i]))
                              = partial_trajectories[i]
      ]_vars

\* a third tick is about to begin: slot 0 was finalized and seeded again in
\* the second tick, slot 1 holds its seed and two steps
BuffersStaySeededWitness ==
    /\ Rolling /\ pc = "loop" /\ tick.n = 2
    /\ \E i \in Slots : active[i]
    /\ num_demos < args.total_demos
    /\ tick.dones[0] /\ SeedOnly(0)
    /\ partial_trajectories[0][1].obs = reset_ob(0, 2)
    /\ Len(partial_trajectories[1]) = 3


\* generate_trajectories with the infinite target and an at-least-n-episodes
\* predicate
EpisodesRun ==
    /\ Rolling
    /\ args.total_demos = Infinity
    /\ args.sample_until.fn = "min_episodes"
\* the tick in which a collected trajectory ended: its last observation names it
FinTick(traj) == traj.obs[Len(traj.obs)].t
\* the first tick at which the collected list held n trajectories
FirstMetTick == FinTick(trajectories[args.sample_until.n])
CollectedBy(t) == {k \in 1 .. Len(trajectories) : FinTick(trajectories[k]) <= t}
FinishedIn(t) ==
    {SlotOf(trajectories[k]) : k \in {h \in 1 .. Len(trajectories) :
                                          FinTick(trajectories[h]) = t}}
CollectedAfter(t, i) ==
    {k \in 1 .. Len(trajectories) :
        SlotOf(trajectories[k]) = i /\ FinTick(trajectories[k]) > t}

(* C30: with the infinite target and an at-least-n-episodes predicate, a     *)
(* tick deactivates exactly the active slots that finished in it once the    *)
(* collected count is at least n, and no slot before; the driver returns     *)
(* with every slot inactive, every slot that was mid-episode at the first    *)
(* tick with n trajectories having given exactly one further trajectory and  *)
(* the others none: the returned count is the count at that tick plus the    *)
(* number of slots that were mid-episode.                                    *)
MidEpisodeSlotsFinish ==
    /\ [][(EpisodesRun /\ tick'.n > tick.n) =>
              \A i \in Slots :
                  /\ active'[i] <=>
                         /\ active[i]
                         /\ ~(/\ Len(trajectories') >= args.sample_until.n
                              /\ tick'.dones_env[i])
                  /\ partial_trajectories'[i] # partial_trajectories[i]
      ]_vars
    /\ []((EpisodesRun /\ pc = "returned") =>
              /\ \A i \in Slots : ~active[i]
              /\ Len(trajectories) >= args.sample_until.n
              /\ \A i \in Slots :
                     Cardinality(CollectedAfter(FirstMetTick, i))
                         = IF i \in FinishedIn(FirstMetTick) THEN 0 ELSE 1
              /\ Len(result.trajectories)
                     = Cardinality(CollectedBy(FirstMetTick))
                           + NumEnvs - Cardinality(FinishedIn(FirstMetTick)))

\* one episode was asked for: slot 0 finished in the first tick, slot 1 went
\* on alone for two more ticks and gave the second trajectory
MidEpisodeSlotsFinishWitness ==
    /\ EpisodesRun /\ pc = "returned"
    /\ args.sample_until.n = 1
    /\ tick.n = 3
    /\ FirstMetTick = 1 /\ FinishedIn(1) = {0}
    /\ Len(result.trajectories) = 2
    /\ SlotOf(trajectories[2]) = 1 /\ Len(trajectories[2].acts) = 3

-----------------------------------------------------------------------------
(* C31: after a call of add_steps_and_auto_finish that returned, the list    *)
(* returned holds one trajectory per slot whose done flag was true, in slot  *)
(* order, each terminal, made of the slot's buffer and ending in the slot's  *)
(* terminal_observation, not in the observation after the reset; that slot's *)
(* buffer is then the single record holding the observation after the reset; *)
(* a slot whose flag was false returned nothing and gained one step record.  *)
AutoReturned == ret.op = "add_steps_and_auto_finish" /\ ~ret.raised

\* the slots of the batch whose done flag is true
DoneSlots == {i \in Slots : ret.batch.dones[i]}

\* position of the done slot i in the list returned
RankOf(i) == 1 + Cardinality({j \in DoneSlots : j < i})

AutoFinishPerDoneSlot ==
    AutoReturned =>
        /\ Len(ret.trajs) = Cardinality(DoneSlots)
        /\ \A i \in DoneSlots :
              LET traj == ret.trajs[RankOf(i)]
              IN /\ traj.terminal
                 /\ Len(traj.obs) = Len(ret.before[i]) + 1
                 /\ traj.obs[Len(traj.obs)] = ret.batch.infos[i].terminal_observation
                 /\ traj.obs[Len(traj.obs)] # ret.batch.obs[i]
                 /\ traj.acts[Len(traj.acts)] = ret.batch.acts[i]
                 /\ traj.rews[Len(traj.rews)] = ret.batch.rews[i]
                 /\ partial_trajectories[i] = <<[obs |-> ret.batch.obs[i]]>>
        /\ \A i \in Slots \ DoneSlots :
              partial_trajectories[i] =
                  Append(ret.before[i],
                         [acts |-> ret.batch.acts[i], rews |-> ret.batch.rews[i],
                          obs |-> ret.batch.obs[i], infos |-> ret.batch.infos[i]])

\* slot 0 finished an episode of two steps while slot 1 went on
AutoFinishPerDoneSlotWitness ==
    /\ AutoReturned
    /\ DoneSlots = {0}
    /\ Len(ret.trajs) = 1
    /\ Len(ret.trajs[1].acts) = 2
    /\ Len(partial_trajectories[1]) = 2

-----------------------------------------------------------------------------
(* C32: the calls of every iteration of generate_trajectories_for_benchmark  *)
(* are, in this order: one reset of the environment, which gives every one   *)
(* of the N slots the first observation of a new episode; one query of the   *)
(* policy, on the observations that this reset returned; the forceDone       *)
(* signal exactly if the demo counter has reached the target; one step; and  *)
(* then one saveInBag per slot 0 .. N-1, addressed to that slot alone and    *)
(* carrying that slot's action; the environment was reset once before the    *)
(* loop and once per iteration, and stepped once per iteration.              *)
CallsOf(name) == {k \in 1 .. Len(tick.calls) : tick.calls[k].call = name}

SignalsOf(name) ==
    {k \in 1 .. Len(tick.calls) :
        tick.calls[k] = [call |-> "env_method", name |-> name]}

BenchIterationOrder ==
    Benchmarking /\ Ticked =>
        /\ CallsOf("reset") = {1}
        /\ DOMAIN tick.calls[1].result = Slots
        /\ \A i \in Slots :
               tick.calls[1].result[i] =
                   [slot |-> i, t |-> tick.n - 1, first |-> TRUE, reset |-> tick.n + 1]
        /\ Cardinality(CallsOf("get_actions")) = 1
        /\ Cardinality(CallsOf("step")) = 1
        /\ \A g \in CallsOf("get_actions"), s \in CallsOf("step") :
              /\ 1 < g /\ g < s
              /\ tick.calls[g].obs = tick.calls[1].result
              /\ SignalsOf("forceDone") \subseteq g + 1 .. s - 1
              /\ Cardinality(SignalsOf("forceDone")) =
                     IF num_demos >= args.total_demos THEN 1 ELSE 0
              /\ Len(tick.calls) = s + NumEnvs
              /\ \A i \in Slots :
                     tick.calls[s + 1 + i] =
                         [call |-> "env_method", name |-> "saveInBag",
                          arg |-> tick.acts[i], indices |-> <<i>>]
        /\ venv.resets = tick.n + 1
        /\ venv.t = tick.n

\* an iteration below the target and a later one that signalled forceDone,
\* in which the policy was queried on the observations of the third reset
\* and not on those the first step had returned
BenchIterationOrderWitness ==
    /\ Benchmarking
    /\ tick.n = 2
    /\ tick.num_demos < args.total_demos
    /\ SignalsOf("forceDone") # {}
    /\ tick.acts[0] # tick.acts[1]
    /\ \E g \in CallsOf("get_actions") :
           /\ \A i \in Slots : tick.calls[g].obs[i].reset = 3
           /\ tick.calls[g].obs # [i \in Slots |-> step_ob(i, 1)]
           /\ tick.calls[g].obs # [i \in Slots |-> reset_ob(i, 1)]

-----------------------------------------------------------------------------
(* C33: every iteration of generate_trajectories_for_benchmark adds to the   *)
(* combined failure count the number of slots whose action contained NaN     *)
(* plus the number of slots whose own action was well-formed and whose info  *)
(* reports at least one of the three violations, and adds to each of the     *)
(* three per-kind counters the number of infos reporting that violation; the *)
(* counters start at 0, so they equal these numbers summed over the          *)
(* iterations.                                                               *)
Violating ==
    {i \in Slots : \/ tick.infos[i].obst_avoidance_violation
                   \/ tick.infos[i].trans_dyn_lim_violation
                   \/ tick.infos[i].yaw_dyn_lim_violation}

Reporting(name) == {i \in Slots : tick.infos[i][name]}

FailureCountPerSample ==
    [][Benchmarking /\ tick'.n = tick.n + 1 =>
          /\ stats'.total_failure =
                 stats.total_failure + Cardinality(Slots \ NaNFree')
                     + Cardinality(NaNFree' \cap Violating')
          /\ stats'.total_obs_avoidance_failure =
                 stats.total_obs_avoidance_failure
                     + Cardinality(Reporting("obst_avoidance_violation")')
          /\ stats'.total_trans_dyn_limit_failure =
                 stats.total_trans_dyn_limit_failure
                     + Cardinality(Reporting("trans_dyn_lim_violation")')
          /\ stats'.total_yaw_dyn_limit_failure =
                 stats.total_yaw_dyn_limit_failure
                     + Cardinality(Reporting("yaw_dyn_lim_violation")')]_vars

-----------------------------------------------------------------------------
(* C34: the diagnostics of stats_dict are the component losses of the Exact  *)
(* variant: time_loss is the time component alone, whatever was added into   *)
(* loss_Hungarian, pos_loss and yaw_loss are the position and yaw            *)
(* components, and with both optional components enabled                     *)
(* time_loss + pos_loss + yaw_loss = loss_Hungarian.                         *)
StatsArePerComponent ==
    out.status = "ok" =>
        /\ RatEq(out.stats_dict.time_loss, out.losses.Hung.time)
        /\ RatEq(out.stats_dict.pos_loss, out.losses.Hung.pos)
        /\ RatEq(out.stats_dict.yaw_loss, out.losses.Hung.yaw)
        /\ ~cfg.make_yaw_NN /\ ~cfg.use_closed_form_yaw_student =>
               RatEq(RatAdd(RatAdd(out.stats_dict.time_loss, out.stats_dict.pos_loss),
                            out.stats_dict.yaw_loss),
                     out.stats_dict.loss_Hungarian)

-----------------------------------------------------------------------------
(* C35: after any call of finish_trajectory, whether it returned or raised,  *)
(* the key is absent from the accumulator and the other buffers are as they  *)
(* were; a call that raised returned no trajectory, so the records of a      *)
(* seed-only or inconsistent buffer are lost.                                *)
FinishDeletesFirst ==
    /\ [](Finished =>
              /\ ret.key \notin DOMAIN partial_trajectories
              /\ ret.raised => ret.traj = NoTraj)
    /\ [][Finished' /\ ret' # ret =>
              /\ DOMAIN partial_trajectories' = DOMAIN partial_trajectories \ {ret'.key}
              /\ \A k \in DOMAIN partial_trajectories' :
                     partial_trajectories'[k] = partial_trajectories[k]]_vars

\* the finish of a seed-only buffer failed while another key held records
FinishDeletesFirstWitness ==
    /\ Finished /\ ret.raised
    /\ Len(ret.part_dicts) = 1
    /\ DOMAIN ret.part_dicts[1] = {"obs"}
    /\ DOMAIN partial_trajectories # {}

-----------------------------------------------------------------------------
(* C36: a call of add_steps_and_auto_finish on an accumulator in which some  *)
(* slot of the batch has no buffer, or a buffer whose first record is not an *)
(* observation-only record, raises with every buffer as it was before the    *)
(* call and with no trajectory finalized, whichever slot is at fault.        *)
AutoCalled == ret.op = "add_steps_and_auto_finish"

\* the slots of the batch that were not seeded when the call was made
Unseeded ==
    {i \in Slots : \/ i \notin DOMAIN ret.before
                   \/ DOMAIN ret.before[i][1] # {"obs"}}

AutoFinishChecksFirst ==
    AutoCalled /\ Unseeded # {} =>
        /\ ret.raised
        /\ ret.trajs = <<>>
        /\ partial_trajectories = ret.before

\* the first slot was seeded and done, the second began with a full step
AutoFinishChecksFirstWitness ==
    /\ AutoCalled /\ ret.raised
    /\ Unseeded = {1}
    /\ 1 \in DOMAIN ret.before
    /\ Len(ret.before[0]) = 2
    /\ ret.batch.dones[0]

-----------------------------------------------------------------------------
(* C37: in a call of generate_trajectories forceDone is signalled at most    *)
(* once, in the iteration in which the demo counter reaches the target; the  *)
(* calls of that iteration after the signal are one step and nothing else,   *)
(* no iteration follows it, and the counter stays below target + N.          *)
Signalled == venv.forceDone >= 1

\* positions of the forceDone signal among the calls of the last iteration
SignalAt ==
    {k \in 1 .. Len(tick.calls) :
        tick.calls[k] = [call |-> "env_method", name |-> "forceDone"]}

ForceDoneOnceThenExit ==
    /\ [](Rolling =>
              /\ venv.forceDone <= 1
              /\ num_demos < args.total_demos + NumEnvs
              /\ Signalled <=> Ticked /\ num_demos >= args.total_demos
              /\ Signalled =>
                     /\ Cardinality(SignalAt) = 1
                     /\ \A k \in SignalAt :
                            /\ Len(tick.calls) = k + 1
                            /\ tick.calls[k + 1].call = "step"
                     /\ tick.num_demos < args.total_demos)
    /\ [][Rolling /\ Signalled =>
              /\ tick' = tick
              /\ venv' = venv
              /\ num_demos' = num_demos
              /\ pc' \in {pc, "returned"}]_vars

\* the target was reached in the second iteration with the largest overshoot,
\* and the call returned
ForceDoneOnceThenExitWitness ==
    /\ Rolling /\ pc = "returned"
    /\ venv.forceDone = 1
    /\ tick.n = 2
    /\ num_demos = args.total_demos + NumEnvs - 1

-----------------------------------------------------------------------------
(* C38: in every tick of generate_trajectories an inactive slot is stepped   *)
(* with its action like any other and a well-formed action of it is counted  *)
(* by the demo counter; the step is appended to the slot's buffer with the   *)
(* observation the step returned, which begins a new episode when the        *)
(* environment reported done. The records of an inactive slot are all kept   *)
(* in its buffer, one per tick since the slot went inactive, across the      *)
(* episode boundaries, and none of them is part of a collected or returned   *)
(* trajectory.                                                               *)
Inactive == {i \in Slots : ~active[i]}

\* the observations held by the trajectories of a list
ObsIn(trajs) ==
    {trajs[k].obs[j] : <<k, j>> \in
        {<<k, j>> \in (1 .. Len(trajs)) \X (1 .. MaxTicks + 2) :
             k <= Len(trajs) /\ j <= Len(trajs[k].obs)}}

InactiveSlotsKeepStepping ==
    /\ [][(Rolling /\ tick'.n > tick.n) =>
              /\ num_demos' = num_demos + Cardinality(NaNFree')
              /\ \A i \in Inactive :
                     LET n == Len(partial_trajectories[i])
                     IN /\ Len(partial_trajectories'[i]) = n + 1
                        /\ SubSeq(partial_trajectories'[i], 1, n)
                               = partial_trajectories[i]
                        /\ partial_trajectories'[i][n + 1].acts = tick'.acts[i]
                        /\ partial_trajectories'[i][n + 1].rews = i + tick'.n
                        /\ partial_trajectories'[i][n + 1].obs
                               = IF tick'.dones_env[i] THEN reset_ob(i, tick'.n)
                                 ELSE step_ob(i, tick'.n)
      ]_vars
    /\ [](Rolling =>
              \A i \in Inactive :
                  /\ Len(partial_trajectories[i])
                         = 1 + tick.n - partial_trajectories[i][1].obs.t
                  /\ \A k \in 2 .. Len(partial_trajectories[i]) :
                         partial_trajectories[i][k].obs \notin ObsIn(trajectories)
                  /\ pc = "returned" =>
                         \A k \in 2 .. Len(partial_trajectories[i]) :
                             partial_trajectories[i][k].obs
                                 \notin ObsIn(result.trajectories))

\* slot 0 went inactive in the first tick; the environment ended an episode
\* of it in the second tick and stepped it again in the third, its actions
\* were counted, and the call returned without those records
InactiveSlotsKeepSteppingWitness ==
    /\ Rolling /\ pc = "returned"
    /\ tick.n = 3
    /\ 0 \in Inactive
    /\ Len(partial_trajectories[0]) = 3
    /\ partial_trajectories[0][1].obs = reset_ob(0, 1)
    /\ partial_trajectories[0][2].obs = reset_ob(0, 2)
    /\ partial_trajectories[0][3].obs = step_ob(0, 3)
    /\ num_demos = 3 * NumEnvs
    /\ Len(result.trajectories) = 2

-----------------------------------------------------------------------------
(* C39: every trajectory returned by generate_trajectories is terminal and   *)
(* has T >= 1 steps with T + 1 observations; its first observation is a seed *)
(* of one slot, the first observation of the call or the one that slot       *)
(* showed after the reset that ended its previous returned trajectory; its   *)
(* steps are the steps of that slot in the T ticks that followed, in order;  *)
(* and the slot was active in all of them: a trajectory is collected only    *)
(* from a slot active in that tick, and none ends after the tick in which    *)
(* its slot went inactive.                                                   *)
Returned == Rolling /\ pc = "returned"

\* the tick after which the first observation of a trajectory was shown
SeedTick(traj) == traj.obs[1].t

ReturnedAreWholeEpisodes ==
    /\ [](Returned =>
              \A k \in 1 .. Len(result.trajectories) :
                  LET traj == result.trajectories[k]
                      T == Len(traj.acts)
                  IN /\ traj.terminal
                     /\ T >= 1
                     /\ Len(traj.obs) = T + 1 /\ Len(traj.rews) = T
                     /\ traj.obs[1] = reset_ob(SlotOf(traj), SeedTick(traj))
                     /\ \A j \in 1 .. T :
                            /\ traj.obs[j + 1]
                                   = step_ob(SlotOf(traj), SeedTick(traj) + j)
                            /\ traj.rews[j] = SlotOf(traj) + SeedTick(traj) + j
                     /\ \/ SeedTick(traj) = 0
                        \/ \E h \in 1 .. Len(result.trajectories) :
                               /\ SlotOf(result.trajectories[h]) = SlotOf(traj)
                               /\ FinTick(result.trajectories[h]) = SeedTick(traj)
                     /\ \A h \in 1 .. Len(result.trajectories) :
                            (/\ h # k
                             /\ SlotOf(result.trajectories[h]) = SlotOf(traj))
                                => \/ FinTick(result.trajectories[h]) <= SeedTick(traj)
                                   \/ SeedTick(result.trajectories[h]) >= FinTick(traj)
                     /\ ~active[SlotOf(traj)] =>
                            FinTick(traj)
                                <= partial_trajectories[SlotOf(traj)][1].obs.t)
    /\ [][(Rolling /\ tick'.n > tick.n) =>
              \A k \in 1 .. Len(tick'.new_trajs) :
                  /\ active[SlotOf(tick'.new_trajs[k])]
                  /\ FinTick(tick'.new_trajs[k]) = tick'.n
      ]_vars

\* slot 0 gave two episodes, of one step and of two steps, the second begun
\* at the observation after its first reset; slot 1 gave none
ReturnedAreWholeEpisodesWitness ==
    /\ Returned
    /\ Len(result.trajectories) = 2
    /\ \E k, h \in 1 .. 2 :
           /\ SlotOf(result.trajectories[k]) = 0
           /\ SlotOf(result.trajectories[h]) = 0
           /\ SeedTick(result.trajectories[k]) = 0
           /\ FinTick(result.trajectories[k]) = 1
           /\ SeedTick(result.trajectories[h]) = 1
           /\ Len(result.trajectories[h].acts) = 2

-----------------------------------------------------------------------------
(* C40: generate_trajectories returns when the target is infinite, the       *)
(* predicate is an at-least-n-episodes or an at-least-n-timesteps predicate  *)
(* and every episode of an active slot ends; and when the target is finite   *)
(* and every action is well-formed it returns after at most ceil(target / N) *)
(* ticks.                                                                    *)
CeilDiv(a, b) == (a + b - 1) \div b

\* the infinite target with a single-condition predicate
UnboundedRun ==
    /\ Rolling
    /\ args.total_demos = Infinity
    /\ args.sample_until.fn \in {"min_episodes", "min_timesteps"}

\* a finite target and a policy of well-formed actions
WellFormedRun ==
    /\ Rolling
    /\ args.total_demos # Infinity
    /\ \A a \in args.policy : counts_as_demo(a)

EventuallyReturns ==
    /\ [](WellFormedRun => tick.n <= CeilDiv(args.total_demos, NumEnvs))
    /\ (UnboundedRun \/ WellFormedRun) ~> pc = "returned"

\* two episodes were asked for under the infinite target: slot 0 gave both
\* while slot 1 ran one episode to the third tick, and the call returned
EventuallyReturnsWitness ==
    /\ UnboundedRun /\ pc = "returned"
    /\ args.sample_until = make_min_episodes(2)
    /\ tick.n = 3
    /\ Len(result.trajectories) = 3
    /\ Cardinality(FromSlot(result.trajectories, 1, 3, 0)) = 2

====
